---------------------------- MODULE Spec2Model ----------------------------
(***************************************************************************)
(* A model of the ytmusicapi-rs client: the duration parser, the playlist  *)
(* parsers, the continuation-driven pagination loop of get_playlist and    *)
(* the authenticated playlist operations of YTMusicClient.                 *)
(*                                                                         *)
(* Strings whose characters the code inspects (durations, playlist ids,    *)
(* status strings) are sequences of one-character strings; strings the     *)
(* code only compares or copies are TLA+ strings.                          *)
(***************************************************************************)
EXTENDS Integers, Sequences, FiniteSets, TLC

VARIABLES
    overflow_checks,  \* build profile: TRUE panics on u32 overflow, FALSE wraps
    duration,         \* parse_duration: the argument
    seconds,          \* parse_duration: the returned value, or Unset before the call
    auth,             \* YTMusicClient.auth: "none", "browser" or "no_sapisid"
    pc,               \* where the running call is: "idle", "loop", "return",
                      \* "remove" or "done"
    call,             \* the running call: its name and arguments
    requests,         \* every request handed to the HTTP client, in order, each
                      \* with the answer it got
    result,           \* what the call returned: Ok(v), Err(e), Panic, or Unset
    add_response,     \* move_playlist_items: the answer to its add request
    playlist,         \* get_playlist: the parsed first page
    track_limit,      \* get_playlist: limit.unwrap_or(5000)
    max_items,        \* fetch_playlist_continuations: its max_items argument
    all_tracks,       \* fetch_playlist_continuations: the accumulated tracks
    token,            \* fetch_playlist_continuations: the loop's token
    more_tracks,      \* what fetch_playlist_continuations returned, Ok(tracks), or Unset
    pages,            \* history: per answered fetch, its parsed tracks and tail token
    shapes,           \* history: what the two shapes of the latest answer held
    served,           \* history: tracks the upstream has served so far
    failed_at,        \* history: the failed fetch, Some([at, error]), or None
    inner,            \* OAuthState.inner: the token behind the mutex
    credentials,      \* OAuthState.credentials is Some
    now,              \* the clock, as unix_timestamp() reads it
    callers,          \* per caller of ensure_access_token: where it is, what it
                      \* captured under the lock, the token it fetched, its result
    refreshes,        \* every refresh request sent to the token endpoint, in order
    cache_file,       \* what persist_to_disk last wrote, or Unset
    held              \* history: every value `inner` has held, in order

durationVars == <<duration, seconds>>

playlistVars ==
    <<playlist, track_limit, max_items, all_tracks, token, more_tracks, pages,
      shapes, served, failed_at>>

clientVars == <<auth, pc, call, requests, result, add_response, playlistVars>>

oauthVars == <<inner, credentials, now, callers, refreshes, cache_file, held>>

vars == <<overflow_checks, oauthVars, durationVars, clientVars>>

(***************************************************************************)
(* Option values, and the outcome of a call that panicked.                 *)
(***************************************************************************)
None == [tag |-> "None"]

Some(v) == [tag |-> "Some", v |-> v]

Panic == [tag |-> "Panic"]

Unset == [tag |-> "Unset"]

Ok(v) == [tag |-> "Ok", v |-> v]

Err(e) == [tag |-> "Err", e |-> e]

(***************************************************************************)
(* Unsigned integers.  TLC's integers are 32-bit signed, so a number is    *)
(* kept as two limbs, hi * 2^16 + lo with lo < 2^16: a u32 has hi < 2^16,  *)
(* and an unchecked u32 operation keeps hi modulo 2^16.                    *)
(***************************************************************************)
Limb == 2^16

Num(hi, lo) == [hi |-> hi + (lo \div Limb), lo |-> lo % Limb]

Nat32(n) == Num(0, n)

NumAdd(a, b) == Num(a.hi + b.hi, a.lo + b.lo)

NumMul(a, m) == Num(a.hi * m, a.lo * m)

\* whether the value fits u32 (is at most u32::MAX)
FitsU32(a) == a.hi < Limb

\* the value an unchecked (wrapping) u32 operation leaves
WrapU32(a) == [hi |-> a.hi % Limb, lo |-> a.lo]

(***************************************************************************)
(* Character-level string helpers.                                         *)
(***************************************************************************)
Digits == <<"0", "1", "2", "3", "4", "5", "6", "7", "8", "9">>

IsDigit(c) == \E i \in 1..10 : Digits[i] = c

DigitValue(c) == (CHOOSE i \in 1..10 : Digits[i] = c) - 1

IsWhitespace(c) == c = " "

RECURSIVE TrimStart(_)
TrimStart(s) ==
    IF s # <<>> /\ IsWhitespace(Head(s)) THEN TrimStart(Tail(s)) ELSE s

RECURSIVE TrimEnd(_)
TrimEnd(s) ==
    IF s # <<>> /\ IsWhitespace(s[Len(s)])
    THEN TrimEnd(SubSeq(s, 1, Len(s) - 1))
    ELSE s

\* str::trim
Trim(s) == TrimEnd(TrimStart(s))

\* str::split(sep): the segments between separators, empty segments kept
RECURSIVE SplitFrom(_, _, _)
SplitFrom(s, sep, cur) ==
    IF s = <<>> THEN <<cur>>
    ELSE IF Head(s) = sep THEN <<cur>> \o SplitFrom(Tail(s), sep, <<>>)
    ELSE SplitFrom(Tail(s), sep, Append(cur, Head(s)))

Split(s, sep) == SplitFrom(s, sep, <<>>)

\* the digits of s read as a decimal number, None at the first character that
\* is no digit and once the value passes u32::MAX
RECURSIVE ParseDigits(_, _)
RECURSIVE ParseDigitsNext(_, _)
ParseDigits(s, acc) ==
    IF s = <<>> THEN Some(acc)
    ELSE IF ~IsDigit(Head(s)) THEN None
    ELSE ParseDigitsNext(Tail(s), NumAdd(NumMul(acc, 10), Nat32(DigitValue(Head(s)))))

ParseDigitsNext(rest, next) ==
    IF ~FitsU32(next) THEN None ELSE ParseDigits(rest, next)

\* <u32 as FromStr>::from_str: an optional leading "+", then one or more digits
parse_u32(s) ==
    IF s = <<>> \/ s = <<"+">> \/ s = <<"-">> THEN None
    ELSE ParseDigits(IF Head(s) = "+" THEN Tail(s) ELSE s, Nat32(0))

(***************************************************************************)
(* parse_duration (parsers/track.rs).  `checked` is the build's            *)
(* overflow-checks setting: a u32 overflow panics when it is on and wraps  *)
(* modulo 2^32 when it is off.                                             *)
(***************************************************************************)
Multiplier(i) == IF i = 0 THEN 1 ELSE IF i = 1 THEN 60 ELSE 3600

RECURSIVE DurationLoop(_, _, _, _)
RECURSIVE DurationPart(_, _, _, _, _)
RECURSIVE DurationAdd(_, _, _, _, _)
\* for (i, part) in parts.iter().rev().enumerate()
DurationLoop(parts, i, acc, checked) ==
    IF i >= Len(parts) THEN Some(acc)
    ELSE DurationPart(parts, i, acc, checked, parse_u32(parts[Len(parts) - i]))

\* part.parse().ok()?, then the multiplier of position i
DurationPart(parts, i, acc, checked, value) ==
    IF value = None THEN None
    ELSE IF i > 2 THEN None
    ELSE DurationAdd(parts, i, acc, checked, NumMul(value.v, Multiplier(i)))

\* seconds += value * multiplier
DurationAdd(parts, i, acc, checked, prod) ==
    IF checked /\ (~FitsU32(prod) \/ ~FitsU32(NumAdd(acc, WrapU32(prod)))) THEN Panic
    ELSE DurationLoop(parts, i + 1, WrapU32(NumAdd(acc, WrapU32(prod))), checked)

parse_duration_trimmed(trimmed, checked) ==
    IF trimmed = <<>> THEN None
    ELSE DurationLoop(Split(trimmed, ":"), 0, Nat32(0), checked)

parse_duration(d, checked) == parse_duration_trimmed(Trim(d), checked)

(***************************************************************************)
(* JSON values (serde_json::Value) and the path navigation of nav.rs.  An  *)
(* object is its members, a function from its keys; an array is the        *)
(* sequence of its elements.                                               *)
(***************************************************************************)
JNull == [t |-> "null"]

JBool(b) == [t |-> "bool", b |-> b]

JNumber(n) == [t |-> "number", n |-> n]

JString(s) == [t |-> "string", s |-> s]

JArray(items) == [t |-> "array", items |-> items]

JObject(members) == [t |-> "object", members |-> members]

\* PathSegment::Key
Key(k) == [segment |-> "Key", key |-> k]

\* PathSegment::Index
Index(i) == [segment |-> "Index", idx |-> i]

\* Value::get(&str): a member of an object, None on anything else
get_key(value, k) ==
    IF value.t # "object" THEN None
    ELSE IF k \notin DOMAIN value.members THEN None
    ELSE Some(value.members[k])

\* nav with a step past the end of an array clamped to the last element
get_index_clamped(value, i) ==
    IF value.t # "array" THEN None
    ELSE IF value.items = <<>> THEN None
    ELSE IF i >= Len(value.items) THEN Some(value.items[Len(value.items)])
    ELSE Some(value.items[i + 1])

\* Value::get(usize): an element of an array, None on anything else
get_index(value, i) ==
    IF value.t # "array" THEN None
    ELSE IF i >= Len(value.items) THEN None
    ELSE Some(value.items[i + 1])

\* the match on the segment in nav
get_segment(value, segment) ==
    IF segment.segment = "Key" THEN get_key(value, segment.key)
    ELSE get_index(value, segment.idx)

\* nav: the value a path leads to, None as soon as a segment finds nothing
RECURSIVE nav(_, _)
RECURSIVE nav_next(_, _)
nav(root, path) ==
    IF path = <<>> THEN Some(root)
    ELSE nav_next(get_segment(root, Head(path)), Tail(path))

\* current = current.get(..)?
nav_next(current, rest) ==
    IF current = None THEN None ELSE nav(current.v, rest)

\* Value::as_str
as_str(value) == IF value.t = "string" THEN Some(value.s) ELSE None

\* Option::and_then(|v| v.as_str())
and_then_as_str(found) == IF found = None THEN None ELSE as_str(found.v)

\* nav_str
nav_str(root, path) == and_then_as_str(nav(root, path))

(***************************************************************************)
(* parse_artist_runs.                                                      *)
(***************************************************************************)
BROWSE_ID_PATH == <<Key("navigationEndpoint"), Key("browseEndpoint"), Key("browseId")>>

\* Artist { name, id }
Artist(name, id) == [name |-> name, id |-> id]

\* one run of the loop: None when the run has no "text" string
artist_named(run, name) ==
    IF name = None THEN None
    ELSE Some(Artist(name.v, nav_str(run, BROWSE_ID_PATH)))

artist_of_run(run) == artist_named(run, and_then_as_str(get_key(run, "text")))

\* artists.push(..), or continue
push_artist(first, rest) == IF first = None THEN rest ELSE <<first.v>> \o rest

\* parse_artist_runs from the run at index i, every step'th run
RECURSIVE artist_runs_from(_, _, _)
artist_runs_from(runs, i, step) ==
    IF i >= Len(runs) THEN <<>>
    ELSE push_artist(artist_of_run(runs[i + 1]), artist_runs_from(runs, i + step, step))

\* parse_artist_runs that visits every run
parse_artist_runs_every_run(runs) == artist_runs_from(runs, 0, 1)

\* parse_artist_runs: runs.iter().step_by(2)
parse_artist_runs(runs) == artist_runs_from(runs, 0, 2)

(***************************************************************************)
(* Raw rows of a playlist shelf.  A row is a JSON object with one renderer *)
(* key; of a musicResponsiveListItemRenderer the model keeps whether it    *)
(* has a flexColumns array, the title (flex column 0), the flex columns    *)
(* from index 2 on as JSON values and the duration text (fixed column 0),  *)
(* of a continuationItemRenderer the token.                                *)
(***************************************************************************)
MRLIR == "musicResponsiveListItemRenderer"

Row(title, dur) ==
    [renderer |-> MRLIR, flex_columns |-> TRUE, title |-> title, duration |-> dur,
     later_columns |-> <<>>, token |-> None]

NoColumnsRow ==
    [renderer |-> MRLIR, flex_columns |-> FALSE, title |-> None, duration |-> None,
     later_columns |-> <<>>, token |-> None]

ContinuationItem(t) ==
    [renderer |-> "continuationItemRenderer", flex_columns |-> FALSE,
     title |-> None, duration |-> None, later_columns |-> <<>>, token |-> Some(t)]

Min(a, b) == IF a <= b THEN a ELSE b

\* Vec::truncate that keeps every element
TruncateKeepsAll(v, n) == v

\* Vec::truncate
Truncate(v, n) == SubSeq(v, 1, Min(Len(v), n))

FLEX_COLUMN_RENDERER == "musicResponsiveListItemFlexColumnRenderer"

\* if renderer.get("text")?.get("runs").is_none() { return None }
flex_renderer_with_runs(renderer, text) ==
    IF text = None THEN None
    ELSE IF get_key(text.v, "runs") = None THEN None
    ELSE Some(renderer)

\* let renderer = column.get(..)?, then the check that text and runs exist
flex_renderer(renderer) ==
    IF renderer = None THEN None
    ELSE flex_renderer_with_runs(renderer.v, get_key(renderer.v, "text"))

\* get_flex_column_item, for the column found at the index
get_flex_column_item(column) == flex_renderer(get_key(column, FLEX_COLUMN_RENDERER))

\* Some(Album { name, id })
album_named(flex_item, name) ==
    IF name = None THEN None
    ELSE Some([name |-> name.v,
               id |-> nav_str(flex_item, <<Key("text"), Key("runs"), Index(0)>>
                                         \o BROWSE_ID_PATH)])

\* let name = nav_str(flex_item, ..)?
album_of_item(flex_item) ==
    IF flex_item = None THEN None
    ELSE album_named(flex_item.v,
                     nav_str(flex_item.v, <<Key("text"), Key("runs"), Index(0), Key("text")>>))

\* parse_song_album, for the column found at the index
parse_song_album(column) == album_of_item(get_flex_column_item(column))

\* for i in 2..flex_columns.len(): the first album found, then break
RECURSIVE find_album(_, _)
RECURSIVE first_album(_, _, _)
find_album(columns, i) ==
    IF i > Len(columns) THEN None
    ELSE first_album(parse_song_album(columns[i]), columns, i)

first_album(album, columns, i) ==
    IF album # None THEN album ELSE find_album(columns, i + 1)

\* parse_playlist_track, once the duration text is parsed
track_with_duration(item, secs) ==
    IF secs = Panic THEN Panic
    ELSE Some([title |-> item.title,
               album |-> find_album(item.later_columns, 1),
               duration |-> item.duration,
               duration_seconds |-> secs])

\* parse_playlist_track that keeps the placeholder of a deleted song
parse_playlist_track_keeping_deleted(item, checked) ==
    IF item.renderer # MRLIR THEN None
    ELSE IF ~item.flex_columns THEN None
    ELSE track_with_duration(item, IF item.duration = None THEN None
                                   ELSE parse_duration(item.duration.v, checked))

\* parse_playlist_track: None for a row that is dropped
parse_playlist_track(item, checked) ==
    IF item.renderer # MRLIR THEN None
    ELSE IF ~item.flex_columns THEN None
    ELSE IF item.title = Some("Song deleted") THEN None
    ELSE track_with_duration(item, IF item.duration = None THEN None
                                   ELSE parse_duration(item.duration.v, checked))

\* filter_map: the parsed row, if it is kept, in front of the rows after it
collect_track(first, rest) ==
    IF first = Panic \/ rest = Panic THEN Panic
    ELSE IF first = None THEN rest
    ELSE Ok(<<first.v>> \o rest.v)

\* parse_playlist_tracks: filter_map over the rows, order kept
RECURSIVE parse_playlist_tracks(_, _)
parse_playlist_tracks(contents, checked) ==
    IF contents = <<>> THEN Ok(<<>>)
    ELSE collect_track(parse_playlist_track(Head(contents), checked),
                       parse_playlist_tracks(Tail(contents), checked))

\* tracks.iter().filter_map(|t| t.duration_seconds).sum() in u32
RECURSIVE sum_duration_seconds(_, _, _)
RECURSIVE sum_checked(_, _, _)
sum_duration_seconds(tracks, acc, checked) ==
    IF tracks = <<>> THEN Ok(acc)
    ELSE sum_checked(Tail(tracks),
                     IF Head(tracks).duration_seconds = None THEN acc
                     ELSE NumAdd(acc, Head(tracks).duration_seconds.v),
                     checked)

sum_checked(rest, sum, checked) ==
    IF checked /\ ~FitsU32(sum) THEN Panic
    ELSE sum_duration_seconds(rest, WrapU32(sum), checked)

\* the token nav_str finds under CONTINUATION_TOKEN in one raw item
continuation_token_of(item) ==
    IF item.renderer = "continuationItemRenderer" THEN item.token ELSE None

\* get_continuation_token: the token of the last item of results.contents
get_continuation_token(contents) ==
    IF contents = None THEN None
    ELSE IF contents.v = <<>> THEN None
    ELSE continuation_token_of(contents.v[Len(contents.v)])

(***************************************************************************)
(* Playlist ids.                                                           *)
(***************************************************************************)
VL == <<"V", "L">>

StartsWith(s, prefix) ==
    Len(s) >= Len(prefix) /\ SubSeq(s, 1, Len(prefix)) = prefix

\* str::contains
Contains(s, sub) ==
    \E i \in 0..(Len(s) - Len(sub)) : SubSeq(s, i + 1, i + Len(sub)) = sub

\* str::strip_prefix(..).unwrap_or(s): one leading occurrence removed
StripPrefix(s, prefix) ==
    IF StartsWith(s, prefix) THEN SubSeq(s, Len(prefix) + 1, Len(s)) ELSE s

\* str::trim_start_matches that removes one leading occurrence only
TrimStartMatchesOnce(s, prefix) ==
    IF StartsWith(s, prefix) THEN SubSeq(s, Len(prefix) + 1, Len(s)) ELSE s

\* str::trim_start_matches: every leading occurrence removed
RECURSIVE TrimStartMatches(_, _)
TrimStartMatches(s, prefix) ==
    IF StartsWith(s, prefix)
    THEN TrimStartMatches(SubSeq(s, Len(prefix) + 1, Len(s)), prefix)
    ELSE s

\* get_playlist: the browse id sent for playlist_id
browse_id(playlist_id) ==
    IF StartsWith(playlist_id, VL) THEN playlist_id ELSE VL \o playlist_id

\* validate_playlist_id
validate_playlist_id(playlist_id) == StripPrefix(playlist_id, VL)

(***************************************************************************)
(* parse_playlist_response.  A browse response is kept as the presence of  *)
(* the nodes the parser walks through: the two-column wrapper, the tab     *)
(* content, the first section-list item, the playlist shelf of the         *)
(* secondary contents, and the shelf's contents array; the first           *)
(* section-list item itself is kept as a JSON value.  Of the header the    *)
(* model keeps the title and the second subtitle.                          *)
(***************************************************************************)
default_playlist(id) ==
    [id |-> id, title |-> "", owned |-> FALSE, privacy |-> "Public",
     duration |-> None, duration_seconds |-> None, track_count |-> None,
     tracks |-> <<>>]

(***************************************************************************)
(* parse_playlist_meta_from_runs.  The text of a run is a sequence of      *)
(* characters.                                                             *)
(***************************************************************************)
UpperCase ==
    <<"A", "B", "C", "D", "E", "F", "G", "H", "I", "J", "K", "L", "M",
      "N", "O", "P", "Q", "R", "S", "T", "U", "V", "W", "X", "Y", "Z">>

LowerCase ==
    <<"a", "b", "c", "d", "e", "f", "g", "h", "i", "j", "k", "l", "m",
      "n", "o", "p", "q", "r", "s", "t", "u", "v", "w", "x", "y", "z">>

\* the character at the place of c in the other alphabet, c if it has none
Recase(c, from, to) ==
    IF \E i \in 1..Len(from) : from[i] = c
    THEN to[CHOOSE i \in 1..Len(from) : from[i] = c]
    ELSE c

\* str::to_lowercase
to_lowercase(s) == [i \in 1..Len(s) |-> Recase(s[i], UpperCase, LowerCase)]

\* str::to_uppercase
to_uppercase(s) == [i \in 1..Len(s) |-> Recase(s[i], LowerCase, UpperCase)]

\* the characters of s up to its first whitespace
RECURSIVE TakeWord(_)
TakeWord(s) ==
    IF s = <<>> \/ IsWhitespace(Head(s)) THEN <<>>
    ELSE <<Head(s)>> \o TakeWord(Tail(s))

\* str::split_whitespace().next()
first_word(s) ==
    IF TrimStart(s) = <<>> THEN None ELSE Some(TakeWord(TrimStart(s)))

\* str::replace(c, "")
Remove(s, c) == SelectSeq(s, LAMBDA x : x # c)

SONG == <<"s", "o", "n", "g">>
TRACK == <<"t", "r", "a", "c", "k">>
HOUR == <<"h", "o", "u", "r">>
MINUTE == <<"m", "i", "n", "u", "t", "e">>

\* text_lower.contains("song") || text_lower.contains("track")
names_count(text) ==
    Contains(to_lowercase(text), SONG) \/ Contains(to_lowercase(text), TRACK)

\* text_lower.contains("hour") || text_lower.contains("minute")
names_duration(text) ==
    Contains(to_lowercase(text), HOUR) \/ Contains(to_lowercase(text), MINUTE)

\* count_str.replace(',', "").parse::<u32>()
parse_count(count_str) ==
    IF count_str = None THEN None ELSE parse_u32(Remove(count_str.v, ","))

\* if let Ok(count) = .. { playlist.track_count = Some(count) }
set_track_count(pl, count) ==
    IF count = None THEN pl ELSE [pl EXCEPT !.track_count = count]

\* the body of the loop for a run with a text: if .. else if ..
meta_of_text(pl, text) ==
    IF names_count(text) THEN set_track_count(pl, parse_count(first_word(text)))
    ELSE IF names_duration(text) THEN [pl EXCEPT !.duration = Some(text)]
    ELSE pl

\* if let Some(text) = run.get("text").and_then(|v| v.as_str())
meta_of_run(pl, text) == IF text = None THEN pl ELSE meta_of_text(pl, text.v)

\* parse_playlist_meta_from_runs: for run in runs, from the run at index i
RECURSIVE meta_from_runs(_, _, _)
meta_from_runs(runs, i, pl) ==
    IF i > Len(runs) THEN pl
    ELSE meta_from_runs(runs, i + 1,
                        meta_of_run(pl, and_then_as_str(get_key(runs[i], "text"))))

parse_playlist_meta_from_runs(runs, pl) == meta_from_runs(runs, 1, pl)

\* playlist.duration_seconds = Some(sum)
with_duration(pl, tracks, total) ==
    IF total = Panic THEN Panic
    ELSE Ok([pl EXCEPT !.tracks = tracks, !.duration_seconds = Some(total.v)])

\* playlist.tracks = tracks, then the total duration
with_tracks(pl, tracks, checked) ==
    IF tracks = Panic THEN Panic
    ELSE with_duration(pl, tracks.v, sum_duration_seconds(tracks.v, Nat32(0), checked))

EDITABLE_PLAYLIST_DETAIL_HEADER == <<Key("musicEditablePlaylistDetailHeaderRenderer")>>

RESPONSIVE_HEADER == <<Key("musicResponsiveHeaderRenderer")>>

TITLE_TEXT == <<Key("title"), Key("runs"), Index(0), Key("text")>>

\* impl From<&str> for Privacy, on the upper-cased string
privacy_of_uppercase(s) ==
    IF s = <<"P", "U", "B", "L", "I", "C">> THEN "Public"
    ELSE IF s = <<"P", "R", "I", "V", "A", "T", "E">> THEN "Private"
    ELSE IF s = <<"U", "N", "L", "I", "S", "T", "E", "D">> THEN "Unlisted"
    ELSE "Public"

\* Privacy::from
privacy_from(s) == privacy_of_uppercase(to_uppercase(s))

\* .map(Privacy::from).unwrap_or(Privacy::Private)
privacy_or_private(found) == IF found = None THEN "Private" ELSE privacy_from(found.v)

\* the privacy of an owned playlist
owned_privacy(editable) ==
    privacy_or_private(
        nav_str(editable, <<Key("editHeader"), Key("musicPlaylistEditHeaderRenderer"),
                            Key("privacy")>>))

\* nav_str(header, TITLE_TEXT).unwrap_or("")
title_or_empty(found) == IF found = None THEN "" ELSE found.v

\* if let Some(runs) = second_subtitle.as_array()
with_second_subtitle(pl, second_subtitle) ==
    IF second_subtitle = None THEN pl
    ELSE IF second_subtitle.v.t # "array" THEN pl
    ELSE parse_playlist_meta_from_runs(second_subtitle.v.items, pl)

\* if let Some(header) = header { .. }
with_header(pl, header) ==
    IF header = None THEN pl
    ELSE with_second_subtitle(
             [pl EXCEPT !.title = title_or_empty(nav_str(header.v, TITLE_TEXT))],
             nav(header.v, <<Key("secondSubtitle"), Key("runs")>>))

\* the playlist of a header that is not owned
with_public_header(pl, section_list_item) ==
    with_header([pl EXCEPT !.owned = FALSE, !.privacy = "Public"],
                nav(section_list_item, RESPONSIVE_HEADER))

\* the playlist of an editable header
with_editable_header(pl, editable) ==
    with_header([pl EXCEPT !.owned = TRUE, !.privacy = owned_privacy(editable)],
                nav(editable, <<Key("header"), Key("musicResponsiveHeaderRenderer")>>))

\* parse_playlist_response that never looks for the editable header
with_section_item_never_owned(pl, section_list_item, editable_header) ==
    with_public_header(pl, section_list_item)

\* playlist.owned = editable_header.is_some(), then the header it selects
with_section_item(pl, section_list_item, editable_header) ==
    IF editable_header = None THEN with_public_header(pl, section_list_item)
    ELSE with_editable_header(pl, editable_header.v)

\* the playlist once the header is read
headed_playlist(response, playlist_id) ==
    with_section_item(default_playlist(TrimStartMatches(playlist_id, VL)),
                      response.first_item,
                      nav(response.first_item, EDITABLE_PLAYLIST_DETAIL_HEADER))

\* parse_playlist_response that unwraps the nodes it looks for
parse_playlist_response_unwrapping(response, playlist_id, checked) ==
    IF ~response.two_col \/ ~response.tab_content \/ ~response.section_item
    THEN Panic
    ELSE with_tracks(headed_playlist(response, playlist_id),
                     IF response.shelf /\ response.contents # None
                     THEN parse_playlist_tracks(response.contents.v, checked)
                     ELSE Ok(<<>>),
                     checked)

parse_playlist_response(response, playlist_id, checked) ==
    IF ~response.two_col \/ ~response.tab_content \/ ~response.section_item
    THEN Ok(default_playlist(TrimStartMatches(playlist_id, VL)))
    ELSE with_tracks(headed_playlist(response, playlist_id),
                     IF response.shelf /\ response.contents # None
                     THEN parse_playlist_tracks(response.contents.v, checked)
                     ELSE Ok(<<>>),
                     checked)

(***************************************************************************)
(* send_request.  The upstream's answer is a transport failure (which      *)
(* covers a body that is not JSON), a non-success HTTP status, or a JSON   *)
(* body, which may carry an "error" member.  A client whose cookie lacks   *)
(* the SAPISID fails before sending.                                       *)
(***************************************************************************)
TransportError == [kind |-> "transport_error"]

HttpError == [kind |-> "http_error"]

Success(json) == [kind |-> "success", json |-> json]

\* what the upstream answered: a failure of one of three kinds, or JSON
answer_of(response) ==
    IF response.kind # "success" THEN response.kind
    ELSE IF response.json.error THEN "error_payload"
    ELSE "json"

\* the value send_request returns for an answer
response_result(response) ==
    IF response.kind = "transport_error" THEN Err("Http")
    ELSE IF response.kind = "http_error" THEN Err("Server")
    ELSE IF response.json.error THEN Err("Server")
    ELSE Ok(response.json)

\* the request as the HTTP client sees it, with the answer it got
exchange(endpoint, body, response) ==
    [endpoint |-> endpoint, body |-> body, answer |-> answer_of(response)]

\* send_request that sends a failed request a second time
send_request_retrying(a, endpoint, body, response) ==
    IF a = "no_sapisid"
    THEN [sent |-> <<>>, result |-> Err("InvalidAuth")]
    ELSE [sent |-> IF answer_of(response) = "json"
                   THEN <<exchange(endpoint, body, response)>>
                   ELSE <<exchange(endpoint, body, response),
                          exchange(endpoint, body, response)>>,
          result |-> response_result(response)]

send_request(a, endpoint, body, response) ==
    IF a = "no_sapisid"
    THEN [sent |-> <<>>, result |-> Err("InvalidAuth")]
    ELSE [sent |-> <<exchange(endpoint, body, response)>>,
          result |-> response_result(response)]

\* check_auth
check_auth(a) == IF a = "none" THEN Err("AuthRequired") ELSE Ok("authenticated")

\* a call that returns before it sends anything
returns(value) == [sent |-> <<>>, result |-> value]

(***************************************************************************)
(* get_playlist and fetch_playlist_continuations.                          *)
(***************************************************************************)
DefaultLimit == 5000

\* the track limit with a default of one track
track_limit_default_one(limit) == IF limit = None THEN 1 ELSE limit.v

\* the track limit with the caller's limit ignored
track_limit_ignoring(limit) == DefaultLimit

\* limit.unwrap_or(5000)
track_limit_of(limit) == IF limit = None THEN DefaultLimit ELSE limit.v

\* the shelf get_playlist looks up in the first response
has_shelf(response) == response.two_col /\ response.shelf

\* if let Some(lim) = limit { playlist.tracks.truncate(lim) }
apply_limit(tracks, limit) ==
    IF limit = None THEN tracks ELSE Truncate(tracks, limit.v)

\* the duration total is recalculated over the tracks that are kept
recalculate(pl, kept, checked) ==
    with_duration(pl, kept, sum_duration_seconds(kept, Nat32(0), checked))

\* get_playlist after the continuations: extend, apply the limit, recalculate
finish_playlist(pl, more, limit, checked) ==
    recalculate(pl, apply_limit(pl.tracks \o more, limit), checked)

\* whether get_playlist goes on to fetch continuations after the first page
wants_continuations(response, pl, lim) ==
    /\ has_shelf(response)
    /\ Len(pl.tracks) < lim
    /\ get_continuation_token(response.contents) # None

\* one JSON member a continuation response may hold an item list under
Absent == [tag |-> "Absent"]

NonArray == [tag |-> "NonArray"]

Array(items) == [tag |-> "Array", items |-> items]

\* nav(..).or_else(|| nav(..)): the first shape unless it is absent
continuation_items(response) ==
    IF response.continuation_contents # Absent
    THEN response.continuation_contents
    ELSE response.append_items

\* the token of the last item of a continuation batch
next_token(items) ==
    IF items = <<>> THEN None ELSE continuation_token_of(items[Len(items)])

\* a parsed batch appended even when it is empty
extend_tracks_without_break(items, tracks, accumulated) ==
    IF tracks = Panic THEN [next |-> "panic"]
    ELSE [next |-> "loop",
          all_tracks |-> accumulated \o tracks.v,
          token |-> next_token(items)]

\* a parsed batch put in front of the tracks accumulated so far
extend_tracks_in_front(items, tracks, accumulated) ==
    IF tracks = Panic THEN [next |-> "panic"]
    ELSE IF tracks.v = <<>> THEN [next |-> "stop"]
    ELSE [next |-> "loop",
          all_tracks |-> tracks.v \o accumulated,
          token |-> next_token(items)]

\* a parsed batch whose emptiness stops the loop only when it has no token
extend_tracks_while_token(items, tracks, accumulated) ==
    IF tracks = Panic THEN [next |-> "panic"]
    ELSE IF tracks.v = <<>> /\ next_token(items) = None THEN [next |-> "stop"]
    ELSE [next |-> "loop",
          all_tracks |-> accumulated \o tracks.v,
          token |-> next_token(items)]

\* a parsed batch: an empty one stops the loop, any other is appended and
\* the token of its last raw item becomes the loop's token
extend_tracks(items, tracks, accumulated) ==
    IF tracks = Panic THEN [next |-> "panic"]
    ELSE IF tracks.v = <<>> THEN [next |-> "stop"]
    ELSE [next |-> "loop",
          all_tracks |-> accumulated \o tracks.v,
          token |-> next_token(items)]

\* if let Some(Value::Array(items)) = continuation_items { .. } else { break }
continuation_batch(found, accumulated, checked) ==
    IF found.tag # "Array" THEN [next |-> "stop"]
    ELSE extend_tracks(found.items, parse_playlist_tracks(found.items, checked),
                       accumulated)

\* one iteration of the fetch loop that takes a failed request for the end of
\* the pages
continuation_step_swallowing(sent, accumulated, checked) ==
    IF sent.tag = "Err" THEN [next |-> "stop"]
    ELSE continuation_batch(continuation_items(sent.v), accumulated, checked)

\* one iteration of the fetch loop on the outcome of its request: the error
\* of a failed request is returned, otherwise the batch is looked up
continuation_step(sent, accumulated, checked) ==
    IF sent.tag = "Err" THEN [next |-> "error", error |-> sent]
    ELSE continuation_batch(continuation_items(sent.v), accumulated, checked)

\* whether the loop is left at its head: no token, or enough tracks
loop_exits(tok, accumulated, max) == tok = None \/ Len(accumulated) >= max

\* a row that is a track and not the placeholder of a deleted song
KeptRow(row) ==
    /\ row.renderer = MRLIR
    /\ row.flex_columns
    /\ row.title # Some("Song deleted")

\* history: the titles of a list of rows or of tracks
kept_titles(rows) == [i \in 1..Len(rows) |-> rows[i].title]

\* history: the token of the last raw item of a raw item list
last_raw_token(items) ==
    IF items = <<>> THEN None
    ELSE IF items[Len(items)].renderer # "continuationItemRenderer" THEN None
    ELSE items[Len(items)].token

\* history: what one shape of an answer holds
shape_summary(shape) ==
    IF shape.tag # "Array" THEN [tag |-> shape.tag]
    ELSE [tag |-> "Array",
          titles |-> kept_titles(SelectSeq(shape.items, KeptRow)),
          token |-> last_raw_token(shape.items)]

\* history: what the two shapes of an answer held
shapes_of(first, second) ==
    [first |-> shape_summary(first), second |-> shape_summary(second)]

\* the history entry of an answered fetch
page_entry(tracks, tok) ==
    [tracks |-> IF tracks = Panic THEN <<>> ELSE tracks.v, token |-> tok]

page_of_batch(found, checked) ==
    IF found.tag # "Array" THEN page_entry(Ok(<<>>), None)
    ELSE page_entry(parse_playlist_tracks(found.items, checked),
                    next_token(found.items))

page_of(response, checked) == page_of_batch(continuation_items(response), checked)

\* history: the first page had no two-column layout wrapper
Unlocated == [tag |-> "Unlocated"]

\* the shelf contents of a first page, as a shape
shelf_shape(response) ==
    IF ~response.two_col THEN Unlocated
    ELSE IF response.shelf /\ response.contents # None
    THEN Array(response.contents.v)
    ELSE Absent

(***************************************************************************)
(* The library listing: parse_library_playlists and parse_playlist_item.   *)
(* Of a library response the model keeps the nodes the parser walks        *)
(* through and the items of the first grid; of a grid item its renderer    *)
(* key, its title and the two places its playlist id may be found.         *)
(***************************************************************************)
MTRIR == "musicTwoRowItemRenderer"

GridItem(renderer, title, playlist_id, browse) ==
    [renderer |-> renderer, title |-> title, playlist_id |-> playlist_id,
     browse_id |-> browse]

\* nav_str(NAVIGATION_PLAYLIST_ID).or_else(|| nav_str(NAVIGATION_BROWSE_ID))
item_playlist_id(item) ==
    IF item.playlist_id # None THEN item.playlist_id ELSE item.browse_id

\* parse_playlist_item, once the id is located
summary_with_id(item, id) ==
    IF id = None THEN None
    ELSE Some([playlist_id |-> TrimStartMatches(id.v, VL), title |-> item.title.v])

\* parse_playlist_item: None for an item that is dropped
parse_playlist_item(item) ==
    IF item.renderer # MTRIR THEN None
    ELSE IF item.title = None THEN None
    ELSE summary_with_id(item, item_playlist_id(item))

\* collect() that puts the parsed item behind the items after it
collect_summary_reversed(first, rest) ==
    IF first = None THEN rest ELSE rest \o <<first.v>>

\* filter_map: the parsed item, if it is kept, in front of the items after it
collect_summary(first, rest) ==
    IF first = None THEN rest ELSE <<first.v>> \o rest

RECURSIVE parse_playlist_items(_)
parse_playlist_items(items) ==
    IF items = <<>> THEN <<>>
    ELSE collect_summary(parse_playlist_item(Head(items)),
                         parse_playlist_items(Tail(items)))

\* parse_library_playlists: the grid's items without the first one
parse_library_playlists(response) ==
    IF ~response.single_column \/ ~response.tab_content \/ ~response.section_list
    THEN <<>>
    ELSE IF response.grid = None THEN <<>>
    ELSE IF response.grid.v = <<>> THEN <<>>
    ELSE parse_playlist_items(Tail(response.grid.v))

(***************************************************************************)
(* The operations of YTMusicClient that send one request.  Each is the     *)
(* requests it sends and the value it returns, given the upstream's        *)
(* answer to its request.                                                  *)
(***************************************************************************)
\* the value of a call that decodes the response into a typed value
decoded(sent) ==
    [sent |-> sent.sent,
     result |-> IF sent.result.tag = "Err" THEN sent.result
                ELSE IF ~sent.result.v.decodes THEN Err("Json")
                ELSE Ok(sent.result.v)]

\* the value of a call that returns unit on success
unit(sent) ==
    [sent |-> sent.sent,
     result |-> IF sent.result.tag = "Err" THEN sent.result ELSE Ok("unit")]

\* get_library_playlists after its request
library_playlists(limit, sent) ==
    [sent |-> sent.sent,
     result |-> IF sent.result.tag = "Err" THEN sent.result
                ELSE Ok(apply_limit(parse_library_playlists(sent.result.v), limit))]

get_library_playlists(a, limit, response) ==
    IF check_auth(a).tag = "Err" THEN returns(check_auth(a))
    ELSE library_playlists(limit,
             send_request(a, "browse", [browseId |-> "FEmusic_liked_playlists"],
                          response))

\* the description member of the create body: set when it is not blank
description_member(description) ==
    IF description # None /\ Trim(description.v) # <<>> THEN description ELSE None

create_playlist(a, title, description, privacy, response) ==
    IF check_auth(a).tag = "Err" THEN returns(check_auth(a))
    ELSE IF Trim(title) = <<>> THEN returns(Err("InvalidInput"))
    ELSE decoded(send_request(a, "playlist/create",
                              [title |-> title, privacyStatus |-> privacy,
                               description |-> description_member(description)],
                              response))

delete_playlist(a, playlist_id, response) ==
    IF check_auth(a).tag = "Err" THEN returns(check_auth(a))
    ELSE IF Trim(playlist_id) = <<>> THEN returns(Err("InvalidInput"))
    ELSE unit(send_request(a, "playlist/delete",
                           [playlistId |-> validate_playlist_id(playlist_id)],
                           response))

get_song(a, video_id, response) ==
    decoded(send_request(a, "player", [video_id |-> video_id], response))

\* LikeStatus::endpoint
endpoint(rating) ==
    IF rating = "Like" THEN "like/like"
    ELSE IF rating = "Dislike" THEN "like/dislike"
    ELSE "like/removelike"

rate_song(a, video_id, rating, response) ==
    IF check_auth(a).tag = "Err" THEN returns(check_auth(a))
    ELSE send_request(a, endpoint(rating), [target |-> video_id], response)

like_song(a, video_id, response) == rate_song(a, video_id, "Like", response)

unlike_song(a, video_id, response) == rate_song(a, video_id, "Indifferent", response)

(***************************************************************************)
(* Editing playlists: add_playlist_items, remove_playlist_items and the    *)
(* two steps of move_playlist_items.                                       *)
(***************************************************************************)
PlaylistItem(video_id, set_video_id) ==
    [video_id |-> video_id, set_video_id |-> set_video_id]

\* an item that carries both ids
Movable(item) == item.video_id # None /\ item.set_video_id # None

RECURSIVE add_actions(_, _)
add_actions(video_ids, allow_duplicates) ==
    IF video_ids = <<>> THEN <<>>
    ELSE <<[action |-> "ACTION_ADD_VIDEO", addedVideoId |-> Head(video_ids),
            dedupeOption |-> IF allow_duplicates THEN Some("DEDUPE_OPTION_SKIP")
                             ELSE None]>>
         \o add_actions(Tail(video_ids), allow_duplicates)

RECURSIVE remove_actions(_)
remove_actions(items) ==
    IF items = <<>> THEN <<>>
    ELSE (IF Movable(Head(items))
          THEN <<[action |-> "ACTION_REMOVE_VIDEO",
                  setVideoId |-> Head(items).set_video_id.v,
                  removedVideoId |-> Head(items).video_id.v]>>
          ELSE <<>>)
         \o remove_actions(Tail(items))

\* add_playlist_items with the authentication check after the validation
add_playlist_items_validating_first(a, playlist_id, video_ids, allow_duplicates, response) ==
    IF video_ids = <<>> THEN returns(Err("InvalidInput"))
    ELSE IF check_auth(a).tag = "Err" THEN returns(check_auth(a))
    ELSE send_request(a, "browse/edit_playlist",
                      [playlistId |-> validate_playlist_id(playlist_id),
                       actions |-> add_actions(video_ids, allow_duplicates)],
                      response)

add_playlist_items(a, playlist_id, video_ids, allow_duplicates, response) ==
    IF check_auth(a).tag = "Err" THEN returns(check_auth(a))
    ELSE IF video_ids = <<>> THEN returns(Err("InvalidInput"))
    ELSE send_request(a, "browse/edit_playlist",
                      [playlistId |-> validate_playlist_id(playlist_id),
                       actions |-> add_actions(video_ids, allow_duplicates)],
                      response)

remove_playlist_items(a, playlist_id, items, response) ==
    IF check_auth(a).tag = "Err" THEN returns(check_auth(a))
    ELSE IF remove_actions(items) = <<>> THEN returns(Err("InvalidInput"))
    ELSE send_request(a, "browse/edit_playlist",
                      [playlistId |-> validate_playlist_id(playlist_id),
                       actions |-> remove_actions(items)],
                      response)

RECURSIVE video_ids_of(_)
video_ids_of(items) ==
    IF items = <<>> THEN <<>>
    ELSE <<Head(items).video_id.v>> \o video_ids_of(Tail(items))

\* collect_movable_items, once the items with both ids are selected
movable_items(removable) ==
    IF removable = <<>> THEN Err("InvalidInput")
    ELSE Ok([video_ids |-> video_ids_of(removable), removable |-> removable])

\* collect_movable_items that asks for the video_id only
collect_items_with_video_id(items) ==
    movable_items(SelectSeq(items, LAMBDA item : item.video_id # None))

collect_movable_items(items) == movable_items(SelectSeq(items, Movable))

SUCCEEDED == <<"S", "U", "C", "C", "E", "E", "D", "E", "D">>

\* a "status" member that is not a JSON string
NotAString == [tag |-> "NotAString"]

\* status_succeeded with a missing status taken for a success
status_succeeded_or_missing(response) ==
    IF response.status.tag = "Some" THEN Contains(response.status.v, SUCCEEDED)
    ELSE TRUE

\* status_succeeded
status_succeeded(response) ==
    IF response.status.tag = "Some" THEN Contains(response.status.v, SUCCEEDED)
    ELSE FALSE

\* move_playlist_items returning before its add request
move_returns(value) == [sent |-> <<>>, result |-> value, add_response |-> Unset]

\* move_playlist_items after its add request: the error of a failed request,
\* a server error for a status that is not a success, or the call goes on
move_added(added) ==
    IF added.result.tag = "Err"
    THEN [sent |-> added.sent, result |-> added.result, add_response |-> Unset]
    ELSE IF ~status_succeeded(added.result.v)
    THEN [sent |-> added.sent, result |-> Err("Server"),
          add_response |-> added.result.v]
    ELSE [sent |-> added.sent, result |-> Unset, add_response |-> added.result.v]

\* move_playlist_items with the items that can be moved
move_collected(a, to_playlist_id, collected, allow_duplicates, response) ==
    IF collected.tag = "Err" THEN move_returns(collected)
    ELSE move_added(add_playlist_items(a, to_playlist_id, collected.v.video_ids,
                                        allow_duplicates, response))

\* move_playlist_items up to the answer to its add request
move_playlist_items(a, to_playlist_id, items, allow_duplicates, response) ==
    IF check_auth(a).tag = "Err" THEN move_returns(check_auth(a))
    ELSE move_collected(a, to_playlist_id, collect_movable_items(items),
                        allow_duplicates, response)

\* move_playlist_items that reports a move whose remove request failed as done
move_removed_ignoring_error(added_response, removed) ==
    [sent |-> removed.sent,
     result |-> Ok([add_response |-> added_response,
                    remove_response |-> IF removed.result.tag = "Err" THEN added_response
                                        ELSE removed.result.v])]

\* move_playlist_items after its remove request
move_removed(added_response, removed) ==
    [sent |-> removed.sent,
     result |-> IF removed.result.tag = "Err" THEN removed.result
                ELSE Ok([add_response |-> added_response,
                         remove_response |-> removed.result.v])]

(***************************************************************************)
(* OAuthToken and OAuthState (auth.rs).  A token is a record of            *)
(* access_token, refresh_token, expires_at, expires_in and cache_path;     *)
(* scope and token_type are carried along unread and are left out.         *)
(***************************************************************************)
MaxCallers == 2

Callers == 1..MaxCallers

OAuthToken(access_token, refresh_token, expires_at, expires_in, cache_path) ==
    [access_token |-> access_token, refresh_token |-> refresh_token,
     expires_at |-> expires_at, expires_in |-> expires_in, cache_path |-> cache_path]

\* OAuthToken::ensure_expires_at, with unix_timestamp() reading `at`
ensure_expires_at(self, at) ==
    IF self.expires_at = None /\ self.expires_in # None
    THEN [self EXCEPT !.expires_at = Some(at + self.expires_in.v)]
    ELSE self

\* OAuthToken::is_expired
is_expired(self, at) ==
    IF self.expires_at # None THEN at >= self.expires_at.v ELSE FALSE

\* the margin of OAuthToken::is_expiring, in seconds
ExpiryMargin == 60

\* OAuthToken::is_expiring
is_expiring(self, at) ==
    IF self.expires_at # None THEN at + ExpiryMargin >= self.expires_at.v ELSE FALSE

\* an update that replaces the access token and nothing else
update_from_access_token_only(self, fresh, at) ==
    [self EXCEPT !.access_token = fresh.access_token]

\* OAuthToken::update_from: the value `self` holds afterwards
update_from(self, fresh, at) ==
    ensure_expires_at(
        [fresh EXCEPT !.refresh_token = IF fresh.refresh_token = None
                                        THEN self.refresh_token
                                        ELSE fresh.refresh_token,
                      !.cache_path = self.cache_path],
        at)

\* OAuthToken::to_file: what is written, the token without its cache path
to_file(self) == [self EXCEPT !.cache_path = None]

\* a caller that has not called ensure_access_token yet
IdleCaller ==
    [at |-> "idle", refresh_token |-> None, cache_path |-> None, fresh |-> Unset,
     since |-> 0, until |-> 0, for_expiry |-> None, result |-> Unset]

\* an OAuthState nobody has called
IdleOAuth ==
    /\ inner = OAuthToken("a0", None, None, None, None)
    /\ credentials = FALSE
    /\ now = 0
    /\ callers = [c \in Callers |-> IdleCaller]
    /\ refreshes = <<>>
    /\ cache_file = Unset
    /\ held = <<inner>>

\* a client on which no call has been made
IdleClient ==
    /\ pc = "idle"
    /\ call = [op |-> "none"]
    /\ requests = <<>>
    /\ result = Unset
    /\ add_response = Unset
    /\ playlist = Unset
    /\ track_limit = 0
    /\ max_items = 0
    /\ all_tracks = <<>>
    /\ token = None
    /\ more_tracks = Unset
    /\ pages = <<>>
    /\ shapes = Unset
    /\ served = 0
    /\ failed_at = None

(***************************************************************************)
(* The upstream of get_playlist: pages of at most MaxPageLen raw items,    *)
(* holding at most MaxTracks tracks over all the pages it serves.          *)
(***************************************************************************)
MaxPageLen == 2

MaxTracks == 3

MaxLimit == 2

Tokens == {"T1", "T2"}

RowA == Row(Some("A"), Some(<<"3", ":", "4", "2">>))

RowB == Row(Some("B"), None)

RowC == Row(Some("C"), Some(<<"4", "2", "9", "4", "9", "6", "7", "2", "9", "5">>))

DeletedRow == Row(Some("Song deleted"), Some(<<"3", ":", "4", "2">>))

RawItems == {RowA, RowB, DeletedRow} \cup { ContinuationItem(t) : t \in Tokens }

\* pages whose tracks' durations add up beyond a u32, alone or with the
\* tracks of other pages
OverflowPages ==
    { <<RowC>>, <<RowC, RowC>>, <<RowC, RowA>>, <<RowC, ContinuationItem("T1")>> }

Pages == UNION { [1..n -> RawItems] : n \in 0..MaxPageLen } \cup OverflowPages

\* the rows of a raw item list that are tracks
TrackCount(items) ==
    Cardinality({ i \in 1..Len(items) :
                    /\ items[i].renderer = MRLIR
                    /\ items[i].flex_columns
                    /\ items[i].title # Some("Song deleted") })

Failures == {TransportError, HttpError}

\* a header with a title and a second subtitle
Header(title, second_subtitle) ==
    JObject([title |-> JObject([runs |-> JArray(<<JObject([text |-> JString(title)])>>)]),
             secondSubtitle |-> JObject([runs |-> second_subtitle])])

\* the first section-list item of a playlist that is not owned
PlainItem ==
    JObject([musicResponsiveHeaderRenderer |->
                 Header("Mix", JArray(<<JObject([text |-> JString(<<"2", " ", "s", "o", "n", "g", "s">>)])>>))])

BrowseBody(two_col, tab_content, section_item, shelf, contents) ==
    [error |-> FALSE, two_col |-> two_col, tab_content |-> tab_content,
     section_item |-> section_item, first_item |-> PlainItem, shelf |-> shelf,
     contents |-> contents]

ErrorPayload == [error |-> TRUE]

\* pages of at most one raw item, for the responses that differ in layout
ShortPages == { p \in Pages : Len(p) <= 1 }

BrowseBodies ==
    { BrowseBody(TRUE, TRUE, TRUE, TRUE, Some(p)) : p \in Pages }
    \cup { BrowseBody(TRUE, tab, section, TRUE, Some(p)) :
             tab \in BOOLEAN, section \in BOOLEAN, p \in ShortPages }
    \cup { BrowseBody(TRUE, TRUE, TRUE, TRUE, None),
           BrowseBody(TRUE, TRUE, TRUE, FALSE, None),
           BrowseBody(FALSE, FALSE, FALSE, FALSE, None) }

BrowseTracks(body) == IF body.contents = None THEN 0 ELSE TrackCount(body.contents.v)

ContinuationBody(cc, ac) ==
    [error |-> FALSE, continuation_contents |-> cc, append_items |-> ac]

\* the pages served under the second shape, or under both shapes
ShapePages == { <<RowA>>, <<RowB, ContinuationItem("T2")>> }

ContinuationBodies ==
    { ContinuationBody(Array(p), Absent) : p \in Pages }
    \cup { ContinuationBody(first, Array(p)) :
             first \in {Absent, NonArray}, p \in ShapePages }
    \cup { ContinuationBody(Array(p), Array(<<RowB>>)) : p \in ShapePages }
    \cup { ContinuationBody(Absent, Absent), ContinuationBody(Absent, NonArray) }

ShapeTracks(shape) == IF shape.tag = "Array" THEN TrackCount(shape.items) ELSE 0

ContinuationTracks(body) ==
    ShapeTracks(body.continuation_contents) + ShapeTracks(body.append_items)

\* the answers the upstream may give to the first request
BrowseResponses ==
    Failures \cup {Success(ErrorPayload)}
    \cup { Success(b) : b \in { x \in BrowseBodies : BrowseTracks(x) <= MaxTracks } }

\* the answers the upstream may give while it has `left` tracks to serve
ContinuationResponses ==
    [ left \in 0..MaxTracks |->
        Failures \cup {Success(ErrorPayload)}
        \cup { Success(b) : b \in { x \in ContinuationBodies :
                                       ContinuationTracks(x) <= left } } ]

PagedPlaylistIds == { <<"V", "L", "P", "L">> }

Limits == {None} \cup { Some(n) : n \in 0..MaxLimit }

(***************************************************************************)
(* get_playlist: the browse request, the parse of the first page, and the  *)
(* decision to fetch continuations.                                        *)
(***************************************************************************)
\* the first page is parsed: the call returns, or enters the fetch loop
BrowseParsed(response, limit, parsed) ==
    IF parsed = Panic
    THEN /\ result' = Panic
         /\ pc' = "done"
         /\ UNCHANGED <<playlist, max_items, token, pages>>
    ELSE /\ playlist' = parsed.v
         /\ pages' = <<page_entry(Ok(parsed.v.tracks),
                                   IF has_shelf(response)
                                   THEN get_continuation_token(response.contents)
                                   ELSE None)>>
         /\ IF wants_continuations(response, parsed.v, track_limit_of(limit))
            THEN /\ pc' = "loop"
                 /\ token' = get_continuation_token(response.contents)
                 /\ max_items' = track_limit_of(limit) - Len(parsed.v.tracks)
                 /\ result' = Unset
            ELSE /\ pc' = "done"
                 /\ result' = finish_playlist(parsed.v, <<>>, limit, overflow_checks)
                 /\ UNCHANGED <<max_items, token>>

\* the browse request is answered, or could not be sent
BrowseSent(playlist_id, limit, sent) ==
    /\ requests' = requests \o sent.sent
    /\ IF sent.result.tag = "Err"
       THEN /\ result' = sent.result
            /\ pc' = "done"
            /\ failed_at' = Some([at |-> Len(requests) + Len(sent.sent),
                                  error |-> sent.result])
            /\ UNCHANGED <<playlist, max_items, token, pages, shapes, served>>
       ELSE /\ served' = served + BrowseTracks(sent.result.v)
            /\ shapes' = shapes_of(shelf_shape(sent.result.v), Absent)
            /\ failed_at' = None
            /\ BrowseParsed(sent.result.v, limit,
                            parse_playlist_response(sent.result.v, playlist_id,
                                                    overflow_checks))

\* get_playlist, called directly or by get_liked_songs
GetPlaylistCall(op, playlist_id, limit, response) ==
    /\ pc = "idle"
    /\ call' = [op |-> op, playlist_id |-> playlist_id, limit |-> limit]
    /\ track_limit' = track_limit_of(limit)
    /\ BrowseSent(playlist_id, limit,
                  send_request(auth, "browse", [browseId |-> browse_id(playlist_id)],
                               response))
    /\ UNCHANGED <<overflow_checks, oauthVars, durationVars, auth, add_response, all_tracks,
                   more_tracks>>

GetPlaylist(playlist_id, limit, response) ==
    GetPlaylistCall("get_playlist", playlist_id, limit, response)

\* the loop's state after one iteration in which the token is not replaced
ContinuationSteppedKeepingToken(step) ==
    IF step.next = "error"
    THEN /\ result' = step.error
         /\ pc' = "done"
         /\ UNCHANGED <<all_tracks, token>>
    ELSE IF step.next = "panic"
    THEN /\ result' = Panic
         /\ pc' = "done"
         /\ UNCHANGED <<all_tracks, token>>
    ELSE IF step.next = "stop"
    THEN /\ pc' = "return"
         /\ UNCHANGED <<all_tracks, token, result>>
    ELSE /\ pc' = "loop"
         /\ all_tracks' = step.all_tracks
         /\ UNCHANGED <<token, result>>

\* the loop's state after one iteration
ContinuationStepped(step) ==
    IF step.next = "error"
    THEN /\ result' = step.error
         /\ pc' = "done"
         /\ UNCHANGED <<all_tracks, token>>
    ELSE IF step.next = "panic"
    THEN /\ result' = Panic
         /\ pc' = "done"
         /\ UNCHANGED <<all_tracks, token>>
    ELSE IF step.next = "stop"
    THEN /\ pc' = "return"
         /\ UNCHANGED <<all_tracks, token, result>>
    ELSE /\ pc' = "loop"
         /\ all_tracks' = step.all_tracks
         /\ token' = step.token
         /\ UNCHANGED result

\* the continuation request is answered
ContinuationSent(sent) ==
    /\ requests' = requests \o sent.sent
    /\ IF sent.result.tag = "Err"
       THEN /\ failed_at' = Some([at |-> Len(requests) + Len(sent.sent),
                                  error |-> sent.result])
            /\ UNCHANGED <<pages, shapes, served>>
       ELSE /\ failed_at' = None
            /\ shapes' = shapes_of(sent.result.v.continuation_contents,
                                   sent.result.v.append_items)
            /\ served' = served + ContinuationTracks(sent.result.v)
            /\ pages' = Append(pages, page_of(sent.result.v, overflow_checks))
    /\ ContinuationStepped(continuation_step(sent.result, all_tracks, overflow_checks))

\* one iteration of the while loop of fetch_playlist_continuations
FetchContinuation(response) ==
    /\ pc = "loop"
    /\ ~loop_exits(token, all_tracks, max_items)
    /\ ContinuationSent(send_request(auth, "browse", [continuation |-> token.v],
                                     response))
    /\ UNCHANGED <<overflow_checks, oauthVars, durationVars, auth, call, add_response, playlist,
                   track_limit, max_items, more_tracks>>

\* the loop is left: fetch_playlist_continuations truncates and returns, and
\* get_playlist extends the first page, applies the limit and returns
ReturnPlaylist ==
    /\ pc = "return" \/ (pc = "loop" /\ loop_exits(token, all_tracks, max_items))
    /\ pc' = "done"
    /\ more_tracks' = Ok(Truncate(all_tracks, max_items))
    /\ result' = finish_playlist(playlist, Truncate(all_tracks, max_items),
                                 call.limit, overflow_checks)
    /\ UNCHANGED <<overflow_checks, oauthVars, durationVars, auth, call, requests, add_response,
                   playlist, track_limit, max_items, all_tracks, token, pages,
                   shapes, served, failed_at>>

InitPlaylist ==
    /\ overflow_checks \in BOOLEAN
    /\ IdleOAuth
    /\ duration = <<>>
    /\ seconds = Unset
    /\ auth = "none"
    /\ IdleClient

NextPlaylist ==
    \/ /\ pc = "idle"
       /\ \E playlist_id \in PagedPlaylistIds, limit \in Limits, response \in BrowseResponses :
          GetPlaylist(playlist_id, limit, response)
    \/ /\ pc = "loop"
       /\ \E response \in ContinuationResponses[MaxTracks - served] :
          FetchContinuation(response)
    \/ ReturnPlaylist

SpecPlaylist == InitPlaylist /\ [][NextPlaylist]_vars

(***************************************************************************)
(* The client as a whole: every operation of YTMusicClient, on a client    *)
(* built without authentication, with a browser cookie, or with a cookie   *)
(* that lacks the SAPISID, against an upstream with a few answers per      *)
(* endpoint.                                                               *)
(***************************************************************************)
MaxItems == 2

MaxGrid == 3

Auths == {"none", "browser", "no_sapisid"}

LM == <<"L", "M">>

PlaylistIds ==
    { <<>>,
      <<" ">>,
      <<"P", "L">>,
      VL,
      <<"V", "L", "P", "L">>,
      <<"V", "L", "V", "L", "P", "L">>,
      <<"V", "V", "L", "L">> }

MoveSources == { <<"P", "L">>, <<"V", "L", "P", "L">> }

MoveDestinations == { LM, <<"V", "L", "Q">> }

Titles == { <<>>, <<" ">>, <<"M", "i", "x">> }

Descriptions == { None, Some(<<" ">>), Some(<<"d">>) }

Privacies == {"PUBLIC", "PRIVATE", "UNLISTED"}

VideoIds == {"v1", "v2"}

Ratings == {"Like", "Dislike", "Indifferent"}

Items ==
    { PlaylistItem(Some("v1"), Some("s1")),
      PlaylistItem(Some("v2"), Some("s2")),
      PlaylistItem(Some("v3"), None),
      PlaylistItem(None, Some("s4")) }

\* lists in which an item that lacks an id stands between, or before, two
\* items that carry both
MixedItemLists ==
    { <<PlaylistItem(Some("v2"), Some("s2")), PlaylistItem(Some("v3"), None),
        PlaylistItem(Some("v1"), Some("s1"))>>,
      <<PlaylistItem(None, Some("s4")), PlaylistItem(Some("v1"), Some("s1")),
        PlaylistItem(Some("v2"), Some("s2"))>> }

ItemLists == UNION { [1..n -> Items] : n \in 0..MaxItems } \cup MixedItemLists

VideoIdLists == UNION { [1..n -> VideoIds] : n \in 0..MaxItems }

\* a response body that decodes into the type the call returns, or does not
PlainBody(decodes) == [error |-> FALSE, decodes |-> decodes]

PlainResponses ==
    Failures \cup {Success(ErrorPayload)}
    \cup { Success(PlainBody(d)) : d \in BOOLEAN }

\* the answer to an edit request, with the status it reports
EditBody(status) == [error |-> FALSE, status |-> status]

Statuses ==
    { None,
      NotAString,
      Some(<<"S", "T", "A", "T", "U", "S", "_">> \o SUCCEEDED),
      Some(SUCCEEDED),
      Some(<<"S", "T", "A", "T", "U", "S", "_", "F", "A", "I", "L", "E", "D">>),
      Some(<<"s", "u", "c", "c", "e", "e", "d", "e", "d">>),
      Some(<<"S", "U", "C", "C", "E", "E", "D">>) }

EditResponses ==
    Failures \cup {Success(ErrorPayload)}
    \cup { Success(EditBody(s)) : s \in Statuses }

NewPlaylistButton == GridItem(MTRIR, Some("New playlist"), None, None)

GridItems ==
    { NewPlaylistButton,
      GridItem(MTRIR, Some("Mix"), Some(<<"V", "L", "P", "L">>), None),
      GridItem(MTRIR, Some("Liked"), None, Some(<<"V", "L", "V", "L", "L", "M">>)),
      GridItem(MTRIR, Some("Road"), Some(<<"P", "L">>), Some(<<"V", "L", "X">>)),
      GridItem(MTRIR, None, Some(<<"P", "L">>), None),
      GridItem("other", Some("Shelf"), Some(<<"P", "L">>), None) }

Grids == UNION { [1..n -> GridItems] : n \in 0..MaxGrid }

LibraryBody(single_column, tab_content, section_list, grid) ==
    [error |-> FALSE, single_column |-> single_column, tab_content |-> tab_content,
     section_list |-> section_list, grid |-> grid]

LibraryResponses ==
    Failures \cup {Success(ErrorPayload)}
    \cup { Success(LibraryBody(TRUE, TRUE, TRUE, Some(g))) : g \in Grids }
    \cup { Success(LibraryBody(TRUE, TRUE, TRUE, None)),
           Success(LibraryBody(TRUE, TRUE, FALSE, None)),
           Success(LibraryBody(TRUE, FALSE, FALSE, None)),
           Success(LibraryBody(FALSE, FALSE, FALSE, None)) }

\* a few first pages: with a token, without one, and without the layout
FirstPages ==
    { BrowseBody(TRUE, TRUE, TRUE, TRUE, Some(<<RowA, ContinuationItem("T1")>>)),
      BrowseBody(TRUE, TRUE, TRUE, TRUE, Some(<<NoColumnsRow, RowB>>)),
      BrowseBody(FALSE, FALSE, FALSE, FALSE, None) }

\* a few continuation pages
NextPages ==
    { ContinuationBody(Array(<<RowB, ContinuationItem("T2")>>), Absent),
      ContinuationBody(Absent, Array(<<RowA>>)),
      ContinuationBody(Array(<<NoColumnsRow, ContinuationItem("T1")>>), Absent) }

FirstPageResponses ==
    Failures \cup {Success(ErrorPayload)} \cup { Success(b) : b \in FirstPages }

NextPageResponses ==
    [ left \in 0..MaxTracks |->
        Failures \cup {Success(ErrorPayload)}
        \cup { Success(b) : b \in { x \in NextPages : ContinuationTracks(x) <= left } } ]

\* a call that sends at most one request and returns
Call(c, outcome) ==
    /\ pc = "idle"
    /\ call' = c
    /\ requests' = requests \o outcome.sent
    /\ result' = outcome.result
    /\ pc' = "done"
    /\ UNCHANGED <<overflow_checks, oauthVars, durationVars, auth, add_response, playlistVars>>

GetLibraryPlaylists(limit, response) ==
    Call([op |-> "get_library_playlists", limit |-> limit],
         get_library_playlists(auth, limit, response))

\* get_liked_songs: check_auth, then get_playlist("LM", limit)
GetLikedSongs(limit, response) ==
    IF check_auth(auth).tag = "Err"
    THEN Call([op |-> "get_liked_songs", playlist_id |-> LM, limit |-> limit],
              returns(check_auth(auth)))
    ELSE GetPlaylistCall("get_liked_songs", LM, limit, response)

CreatePlaylist(title, description, privacy, response) ==
    Call([op |-> "create_playlist", title |-> title, description |-> description,
          privacy |-> privacy],
         create_playlist(auth, title, description, privacy, response))

DeletePlaylist(playlist_id, response) ==
    Call([op |-> "delete_playlist", playlist_id |-> playlist_id],
         delete_playlist(auth, playlist_id, response))

GetSong(video_id, response) ==
    Call([op |-> "get_song", video_id |-> video_id],
         get_song(auth, video_id, response))

RateSong(video_id, rating, response) ==
    Call([op |-> "rate_song", video_id |-> video_id, rating |-> rating],
         rate_song(auth, video_id, rating, response))

LikeSong(video_id, response) ==
    Call([op |-> "like_song", video_id |-> video_id],
         like_song(auth, video_id, response))

UnlikeSong(video_id, response) ==
    Call([op |-> "unlike_song", video_id |-> video_id],
         unlike_song(auth, video_id, response))

AddPlaylistItems(playlist_id, video_ids, allow_duplicates, response) ==
    Call([op |-> "add_playlist_items", playlist_id |-> playlist_id,
          video_ids |-> video_ids, allow_duplicates |-> allow_duplicates],
         add_playlist_items(auth, playlist_id, video_ids, allow_duplicates, response))

RemovePlaylistItems(playlist_id, items, response) ==
    Call([op |-> "remove_playlist_items", playlist_id |-> playlist_id,
          items |-> items],
         remove_playlist_items(auth, playlist_id, items, response))

\* move_playlist_items after its first step: it returns, or goes on to remove
MoveStarted(outcome) ==
    /\ requests' = requests \o outcome.sent
    /\ add_response' = outcome.add_response
    /\ IF outcome.result = Unset
       THEN /\ pc' = "remove"
            /\ UNCHANGED result
       ELSE /\ pc' = "done"
            /\ result' = outcome.result

\* move_playlist_items up to the answer to its add request
MovePlaylistItems(from_playlist_id, to_playlist_id, items, allow_duplicates, response) ==
    /\ pc = "idle"
    /\ call' = [op |-> "move_playlist_items", from_playlist_id |-> from_playlist_id,
                to_playlist_id |-> to_playlist_id, items |-> items,
                allow_duplicates |-> allow_duplicates]
    /\ MoveStarted(move_playlist_items(auth, to_playlist_id, items, allow_duplicates,
                                       response))
    /\ UNCHANGED <<overflow_checks, oauthVars, durationVars, auth, playlistVars>>

\* move_playlist_items once its remove request is answered
MoveFinished(outcome) ==
    /\ requests' = requests \o outcome.sent
    /\ result' = outcome.result
    /\ pc' = "done"

\* move_playlist_items from the remove request to its return
MoveRemove(response) ==
    /\ pc = "remove"
    /\ MoveFinished(move_removed(add_response,
           remove_playlist_items(auth, call.from_playlist_id,
                                 collect_movable_items(call.items).v.removable,
                                 response)))
    /\ UNCHANGED <<overflow_checks, oauthVars, durationVars, auth, call, add_response,
                   playlistVars>>

InitClient ==
    /\ overflow_checks \in BOOLEAN
    /\ IdleOAuth
    /\ duration = <<>>
    /\ seconds = Unset
    /\ auth \in Auths
    /\ IdleClient

NextClient ==
    \/ /\ pc = "idle"
       /\ \E limit \in Limits, response \in LibraryResponses :
          GetLibraryPlaylists(limit, response)
    \/ /\ pc = "idle"
       /\ \E playlist_id \in PlaylistIds, limit \in Limits, response \in FirstPageResponses :
          GetPlaylist(playlist_id, limit, response)
    \/ /\ pc = "idle"
       /\ \E limit \in Limits, response \in FirstPageResponses :
          GetLikedSongs(limit, response)
    \/ /\ pc = "loop"
       /\ \E response \in NextPageResponses[MaxTracks - served] :
          FetchContinuation(response)
    \/ ReturnPlaylist
    \/ /\ pc = "idle"
       /\ \E title \in Titles, description \in Descriptions, privacy \in Privacies,
          response \in PlainResponses :
          CreatePlaylist(title, description, privacy, response)
    \/ /\ pc = "idle"
       /\ \E playlist_id \in PlaylistIds, response \in PlainResponses :
          DeletePlaylist(playlist_id, response)
    \/ /\ pc = "idle"
       /\ \E video_id \in VideoIds, response \in PlainResponses :
          GetSong(video_id, response)
    \/ /\ pc = "idle"
       /\ \E video_id \in VideoIds, rating \in Ratings, response \in PlainResponses :
          RateSong(video_id, rating, response)
    \/ /\ pc = "idle"
       /\ \E video_id \in VideoIds, response \in PlainResponses :
          LikeSong(video_id, response)
    \/ /\ pc = "idle"
       /\ \E video_id \in VideoIds, response \in PlainResponses :
          UnlikeSong(video_id, response)
    \/ /\ pc = "idle"
       /\ \E playlist_id \in PlaylistIds, video_ids \in VideoIdLists,
          allow_duplicates \in BOOLEAN, response \in EditResponses :
          AddPlaylistItems(playlist_id, video_ids, allow_duplicates, response)
    \/ /\ pc = "idle"
       /\ \E playlist_id \in PlaylistIds, items \in ItemLists, response \in EditResponses :
          RemovePlaylistItems(playlist_id, items, response)
    \/ /\ pc = "idle"
       /\ \E from_playlist_id \in MoveSources, to_playlist_id \in MoveDestinations,
          items \in ItemLists, allow_duplicates \in BOOLEAN, response \in EditResponses :
          MovePlaylistItems(from_playlist_id, to_playlist_id, items,
                            allow_duplicates, response)
    \/ /\ pc = "remove"
       /\ \E response \in EditResponses : MoveRemove(response)

SpecClient == InitClient /\ [][NextClient]_vars

(***************************************************************************)
(* The parsers called on their own: nav, parse_artist_runs,                *)
(* parse_playlist_tracks, parse_library_playlists and                      *)
(* parse_playlist_response, each on an argument drawn from a bounded set.  *)
(***************************************************************************)
MaxPathLen == 3

MaxRuns == 3

MaxRows == 3

MaxColumns == 2

BrowseEndpoint(id) == JObject([browseEndpoint |-> JObject([browseId |-> id])])

ArtistRun(name, id) ==
    JObject([text |-> JString(name), navigationEndpoint |-> BrowseEndpoint(JString(id))])

PlainRun(name) == JObject([text |-> JString(name)])

\* the runs of tests::test_parse_artist_runs
TestRuns == <<ArtistRun("Artist 1", "UC123"), PlainRun(" & "), PlainRun("Artist 2")>>

Runs ==
    { ArtistRun("Artist 1", "UC123"),
      PlainRun(" & "),
      PlainRun("Artist 2"),
      JObject([navigationEndpoint |-> BrowseEndpoint(JString("UC456"))]),
      JObject([text |-> JNumber(7)]),
      JObject([text |-> JString("Artist 3"),
               navigationEndpoint |-> BrowseEndpoint(JNumber(5))]),
      JObject([text |-> JString("Artist 4"),
               navigationEndpoint |-> JObject([watchEndpoint |-> JNull])]),
      JString(", ") }

RunLists == UNION { [1..n -> Runs] : n \in 0..MaxRuns }

\* the documents of the tests and of the doc comment of nav.rs, and values
\* that are not objects
Roots ==
    { JObject([foo |-> JString("bar")]),
      JObject([a |-> JObject([b |-> JObject([c |-> JNumber(123)])])]),
      JObject([items |-> JArray(<<JObject([name |-> JString("first")]),
                                  JObject([name |-> JString("second")])>>)]),
      JObject([foo |-> JArray(<<JObject([bar |-> JString("baz")])>>)]),
      JArray(<<>>),
      JArray(<<JNull, JArray(<<JString("x")>>)>>),
      JNull,
      JBool(TRUE),
      JNumber(5),
      JString("foo") }

PathSegments ==
    { Key("foo"), Key("bar"), Key("a"), Key("b"), Key("items"), Key("name"),
      Index(0), Index(1) }

Paths == UNION { [1..n -> PathSegments] : n \in 0..MaxPathLen }

\* rows of a shelf: tracks, placeholders of deleted songs with and without a
\* duration, titles that only resemble the placeholder's, and rows that are
\* not tracks
ShelfRows ==
    { RowA,
      RowB,
      DeletedRow,
      Row(Some("Song deleted"), None),
      Row(Some("Song deleted "), Some(<<"3", ":", "4", "2">>)),
      Row(Some("song deleted"), None),
      Row(None, Some(<<"0", ":", "3", "0">>)),
      NoColumnsRow,
      ContinuationItem("T1") }

RowLists == UNION { [1..n -> ShelfRows] : n \in 0..MaxRows }

\* texts of secondary-subtitle runs: counts, durations, one text with both,
\* one with a count that is no number, one that names neither, one whose
\* count does not fit u32
MetaTexts ==
    { <<"1", "2", " ", "s", "o", "n", "g", "s">>,
      <<"1", ",", "2", "3", "4", " ", "T", "R", "A", "C", "K", "S">>,
      <<"2", " ", "h", "o", "u", "r", "s">>,
      <<"4", "5", " ", "M", "i", "n", "u", "t", "e", "s">>,
      <<"3", " ", "s", "o", "n", "g", "s", ",", " ", "1", " ", "h", "o", "u", "r">>,
      <<" ", "s", "o", "n", "g", "s">>,
      <<"9", " ", "v", "i", "e", "w", "s">>,
      <<"4", "2", "9", "4", "9", "6", "7", "2", "9", "6", " ", "t", "r", "a", "c", "k", "s">> }

\* secondary-subtitle runs: a text, a "text" that is no string, no "text"
MetaRuns ==
    { JObject([text |-> JString(t)]) : t \in MetaTexts }
    \cup { JObject([text |-> JNumber(7)]), JObject([bold |-> JBool(TRUE)]) }

MetaRunLists == UNION { [1..n -> MetaRuns] : n \in 0..MaxRuns }

\* the values of the privacy field of an edit header
PrivacyFields ==
    { JString(<<"P", "U", "B", "L", "I", "C">>), JString(<<"P", "R", "I", "V", "A", "T", "E">>), JString(<<"U", "N", "L", "I", "S", "T", "E", "D">>),
      JString(<<"p", "r", "i", "v", "a", "t", "e">>), JString(<<"F", "R", "I", "E", "N", "D", "S">>), JNull }

\* the header of the tests of the second subtitle: count and duration in
\* different runs
OwnedHeader ==
    Header("Mine", JArray(<<JObject([text |-> JString(<<"1", "2", " ", "s", "o", "n", "g", "s">>)]),
                           JObject([text |-> JString(<<"2", " ", "h", "o", "u", "r", "s">>)])>>))

EditHeader(privacy) ==
    JObject([musicPlaylistEditHeaderRenderer |-> JObject([privacy |-> privacy])])

\* the first section-list item of an owned playlist
EditableItem(members) ==
    JObject([musicEditablePlaylistDetailHeaderRenderer |-> JObject(members)])

\* first section-list items: owned with each privacy field, owned without an
\* edit header, without a header, with a wrapper that is null, with both
\* wrappers, not owned, and with neither wrapper
SectionItems ==
    { EditableItem([editHeader |-> EditHeader(p),
                    header |-> JObject([musicResponsiveHeaderRenderer |-> OwnedHeader])]) :
        p \in PrivacyFields }
    \cup { EditableItem([header |-> JObject([musicResponsiveHeaderRenderer |-> OwnedHeader])]),
           EditableItem([editHeader |-> EditHeader(JString(<<"U", "N", "L", "I", "S", "T", "E", "D">>))]),
           JObject([musicEditablePlaylistDetailHeaderRenderer |-> JNull]),
           JObject([musicEditablePlaylistDetailHeaderRenderer |->
                        JObject([editHeader |-> EditHeader(JString(<<"P", "R", "I", "V", "A", "T", "E">>))]),
                    musicResponsiveHeaderRenderer |-> OwnedHeader]),
           PlainItem,
           JObject([musicResponsiveHeaderRenderer |-> JNull]),
           JObject([musicShelfRenderer |-> JNull]),
           JNull }

\* browse responses that differ in their first section-list item
HeaderBodies ==
    { [BrowseBody(TRUE, TRUE, section, TRUE, Some(<<RowA>>)) EXCEPT !.first_item = item] :
        section \in BOOLEAN, item \in SectionItems }

\* a flex column whose first run has the text `name`
TextColumn(name) ==
    JObject([musicResponsiveListItemFlexColumnRenderer |->
                 JObject([text |-> JObject([runs |-> JArray(<<JObject([text |-> JString(name)])>>)])])])

\* flex columns: album names, the empty string, an album with a browse id, a
\* column without runs, one whose runs are empty, one that is no renderer
FlexColumns ==
    { TextColumn("Album 1"),
      TextColumn("Album 2"),
      TextColumn(""),
      JObject([musicResponsiveListItemFlexColumnRenderer |->
                   JObject([text |-> JObject([runs |-> JArray(<<ArtistRun("Album 3", "MPRE1")>>)])])]),
      JObject([musicResponsiveListItemFlexColumnRenderer |-> JObject([text |-> JObject([simpleText |-> JNull])])]),
      JObject([musicResponsiveListItemFlexColumnRenderer |-> JObject([text |-> JObject([runs |-> JArray(<<>>)])])]),
      JNull }

\* the flex columns of a row from index 2 on
LaterColumns == UNION { [1..n -> FlexColumns] : n \in 0..MaxColumns }

\* single rows: the rows of a shelf, and a track with each list of later
\* flex columns
TrackRows == ShelfRows \cup { [RowA EXCEPT !.later_columns = c] : c \in LaterColumns }

LibraryBodies ==
    { r.json : r \in { x \in LibraryResponses \ Failures : ~x.json.error } }

ParserCalls ==
    { [op |-> "nav", root |-> r, path |-> p] : r \in Roots, p \in Paths }
    \cup { [op |-> "parse_artist_runs", runs |-> r] : r \in RunLists }
    \cup { [op |-> "parse_playlist_tracks", contents |-> c] : c \in RowLists }
    \cup { [op |-> "parse_library_playlists", response |-> r] : r \in LibraryBodies }
    \cup { [op |-> "parse_playlist_response", response |-> r, playlist_id |-> id] :
             r \in BrowseBodies \cup HeaderBodies, id \in PagedPlaylistIds }
    \cup { [op |-> "parse_playlist_track", item |-> i] : i \in TrackRows }
    \cup { [op |-> "parse_playlist_meta_from_runs", second_subtitle |-> r] : r \in MetaRunLists }

\* the parser returns its value
ParserReturns(value) ==
    /\ pc = "idle"
    /\ pc' = "done"
    /\ result' = value
    /\ UNCHANGED <<overflow_checks, oauthVars, durationVars, auth, call, requests, add_response,
                   playlistVars>>

Nav ==
    /\ call.op = "nav"
    /\ ParserReturns(nav(call.root, call.path))

ParseArtistRuns ==
    /\ call.op = "parse_artist_runs"
    /\ ParserReturns(parse_artist_runs(call.runs))

ParsePlaylistTracks ==
    /\ call.op = "parse_playlist_tracks"
    /\ ParserReturns(parse_playlist_tracks(call.contents, overflow_checks))

ParseLibraryPlaylists ==
    /\ call.op = "parse_library_playlists"
    /\ ParserReturns(parse_library_playlists(call.response))

ParsePlaylistResponse ==
    /\ call.op = "parse_playlist_response"
    /\ ParserReturns(parse_playlist_response(call.response, call.playlist_id,
                                             overflow_checks))

ParsePlaylistTrack ==
    /\ call.op = "parse_playlist_track"
    /\ ParserReturns(parse_playlist_track(call.item, overflow_checks))

ParsePlaylistMetaFromRuns ==
    /\ call.op = "parse_playlist_meta_from_runs"
    /\ ParserReturns(parse_playlist_meta_from_runs(call.second_subtitle, default_playlist(<<"P", "L">>)))

InitParsers ==
    /\ overflow_checks \in BOOLEAN
    /\ IdleOAuth
    /\ duration = <<>>
    /\ seconds = Unset
    /\ auth = "none"
    /\ pc = "idle"
    /\ call \in ParserCalls
    /\ requests = <<>>
    /\ result = Unset
    /\ add_response = Unset
    /\ playlist = Unset
    /\ track_limit = 0
    /\ max_items = 0
    /\ all_tracks = <<>>
    /\ token = None
    /\ more_tracks = Unset
    /\ pages = <<>>
    /\ shapes = Unset
    /\ served = 0
    /\ failed_at = None

NextParsers ==
    \/ Nav
    \/ ParseArtistRuns
    \/ ParsePlaylistTracks
    \/ ParseLibraryPlaylists
    \/ ParsePlaylistResponse
    \/ ParsePlaylistTrack
    \/ ParsePlaylistMetaFromRuns

SpecParsers == InitParsers /\ [][NextParsers]_vars

(***************************************************************************)
(* The inputs of the duration parser: up to MaxSegments segments joined    *)
(* by ":" and wrapped in optional whitespace.                              *)
(***************************************************************************)
MaxSegments == 4

Segments ==
    { <<>>,
      <<"4", "5">>,
      <<"+", "5">>,
      <<"x">>,
      <<"1", "1", "9", "3", "0", "4", "7">>,
      <<"4", "2", "9", "4", "9", "6", "7", "2", "9", "5">>,
      <<"4", "2", "9", "4", "9", "6", "7", "2", "9", "6">> }

RECURSIVE Join(_)
Join(segs) ==
    IF Len(segs) = 1 THEN segs[1]
    ELSE segs[1] \o <<":">> \o Join(Tail(segs))

Paddings == { <<>>, <<" ">> }

DurationInputs ==
    { l \o Join(segs) \o r :
        segs \in UNION { [1..n -> Segments] : n \in 1..MaxSegments },
        l \in Paddings, r \in Paddings }

InitDuration ==
    /\ overflow_checks \in BOOLEAN
    /\ IdleOAuth
    /\ duration \in DurationInputs
    /\ seconds = Unset
    /\ auth = "none"
    /\ IdleClient

ParseDuration ==
    /\ seconds = Unset
    /\ seconds' = parse_duration(duration, overflow_checks)
    /\ UNCHANGED <<overflow_checks, oauthVars, duration, clientVars>>

NextDuration == ParseDuration

SpecDuration == InitDuration /\ [][NextDuration]_vars


(***************************************************************************)
(* OAuthState::ensure_access_token (auth.rs), called by MaxCallers         *)
(* callers at once.  Each action is one stretch of the function that runs  *)
(* without another caller in between: a stretch under the mutex, or the    *)
(* awaited refresh request between two of them.                            *)
(***************************************************************************)
MaxNow == 1

\* what an OAuthState never touches
restVars == <<overflow_checks, durationVars, clientVars>>

\* should_refresh, on the token ensure_expires_at has just been applied to
should_refresh(tok, at) ==
    credentials /\ tok.refresh_token # None /\ (is_expiring(tok, at) \/ is_expired(tok, at))

\* the value `inner` takes, appended to the history when it is a new one
Store(tok) ==
    /\ inner' = tok
    /\ held' = IF tok = inner THEN held ELSE Append(held, tok)

\* the caller's return
Finished(c, value) ==
    [callers[c] EXCEPT !.at = "done", !.result = value, !.until = Len(held')]

\* the first block: the lock is taken, expires_at is computed, the refresh is
\* decided and its inputs are captured; the lock is released
Decide(c, tok) ==
    /\ callers[c].at = "idle"
    /\ Store(tok)
    /\ callers' = [callers EXCEPT ![c] =
           IF should_refresh(tok, now)
           THEN [@ EXCEPT !.at = "refresh", !.refresh_token = tok.refresh_token,
                          !.cache_path = tok.cache_path, !.since = Len(held),
                          !.for_expiry = tok.expires_at]
           ELSE [@ EXCEPT !.at = "read", !.since = Len(held)]]
    /\ UNCHANGED <<credentials, now, refreshes, cache_file, restVars>>

\* the access tokens the token endpoint hands out, one per request
AccessTokens == <<"a1", "a2", "a3", "a4">>

\* answers of the token endpoint to the n-th refresh request
RefreshResponses(n) ==
    { Err("InvalidAuth") } \cup
    { Ok(OAuthToken(AccessTokens[n], refresh_token, None, expires_in, None)) :
        refresh_token \in { None, Some("r1") },
        expires_in \in { None, Some(3600) } }

AllRefreshResponses == UNION { RefreshResponses(n) : n \in 1..Len(AccessTokens) }

\* credentials.refresh_token(&refresh_token).await?: the request is sent and
\* answered; parse_oauth_response computes the answer's expires_at
RefreshToken(c, response) ==
    /\ callers[c].at = "refresh"
    /\ response \in RefreshResponses(Len(refreshes) + 1)
    /\ refreshes' = Append(refreshes, [caller |-> c, refresh_token |-> callers[c].refresh_token.v,
                                       for_expiry |-> callers[c].for_expiry,
                                       succeeded |-> response.tag = "Ok"])
    /\ callers' = [callers EXCEPT ![c] =
           IF response.tag = "Ok"
           THEN [@ EXCEPT !.at = "update",
                          !.fresh = [ensure_expires_at(response.v, now)
                                         EXCEPT !.cache_path = callers[c].cache_path]]
           ELSE [@ EXCEPT !.at = "done", !.result = response, !.until = Len(held)]]
    /\ UNCHANGED <<inner, credentials, now, cache_file, held, restVars>>

\* OAuthInner::persist_to_disk: `written` is whether std::fs::write succeeds
persist_to_disk(tok, written) ==
    IF tok.cache_path = None THEN Ok(Unset)
    ELSE IF written THEN Ok(to_file(tok))
    ELSE Err("Io")

\* the second block: update_from and persist_to_disk under the lock
Update(c, tok, persisted) ==
    /\ callers[c].at = "update"
    /\ Store(tok)
    /\ cache_file' = IF persisted.tag = "Ok" /\ persisted.v # Unset THEN persisted.v ELSE cache_file
    /\ callers' = [callers EXCEPT ![c] =
           Finished(c, IF persisted.tag = "Ok" THEN Ok(tok) ELSE persisted)]
    /\ UNCHANGED <<credentials, now, refreshes, restVars>>

\* no refresh needed: the lock is taken again and the token is read
Read(c) ==
    /\ callers[c].at = "read"
    /\ UNCHANGED <<inner, credentials, now, refreshes, cache_file, held, restVars>>
    /\ callers' = [callers EXCEPT ![c] =
           Finished(c, IF is_expired(inner, now) THEN Err("InvalidAuth") ELSE Ok(inner))]

\* a second passes
Tick ==
    /\ now < MaxNow
    /\ now' = now + 1
    /\ UNCHANGED <<inner, credentials, callers, refreshes, cache_file, held, restVars>>

RefreshTokens == { None, Some("r0") }

CachePaths == { None, Some("oauth.json") }

\* tokens an OAuthState is built on: read from a file, or put together field by field
InitialTokens ==
    { OAuthToken("a0", refresh_token, expires_at, expires_in, cache_path) :
        refresh_token \in RefreshTokens,
        expires_at \in { None, Some(1), Some(ExpiryMargin + 1) },
        expires_in \in { None, Some(3600) },
        cache_path \in CachePaths }

InitOAuth ==
    /\ overflow_checks = FALSE
    /\ inner \in InitialTokens
    /\ credentials \in BOOLEAN
    /\ now = 0
    /\ callers = [c \in Callers |-> IdleCaller]
    /\ refreshes = <<>>
    /\ cache_file = Unset
    /\ held = <<inner>>
    /\ duration = <<>>
    /\ seconds = Unset
    /\ auth = "none"
    /\ IdleClient

NextOAuth ==
    \/ \E c \in Callers : Decide(c, ensure_expires_at(inner, now))
    \/ \E c \in Callers, response \in AllRefreshResponses : RefreshToken(c, response)
    \/ \E c \in Callers, written \in BOOLEAN :
           Update(c, update_from(inner, callers[c].fresh, now),
                  persist_to_disk(update_from(inner, callers[c].fresh, now), written))
    \/ \E c \in Callers : Read(c)
    \/ Tick

SpecOAuth == InitOAuth /\ [][NextOAuth]_vars
(***************************************************************************)
(* Properties of get_playlist and of its pagination loop.                  *)
(***************************************************************************)
\* the call has returned a value
Returned == pc = "done" /\ result.tag = "Ok"

\* the tracks of the answered fetches, in page order
RECURSIVE PageTracks(_)
PageTracks(ps) ==
    IF ps = <<>> THEN <<>> ELSE Head(ps).tracks \o PageTracks(Tail(ps))

\* the exact sum of the tracks' duration_seconds, an absent one counted as 0
RECURSIVE TotalSeconds(_)
TotalSeconds(tracks) ==
    IF tracks = <<>> THEN Nat32(0)
    ELSE NumAdd(IF Head(tracks).duration_seconds = None THEN Nat32(0)
                ELSE Head(tracks).duration_seconds.v,
                TotalSeconds(Tail(tracks)))

\* C1: for every limit Some(n), n = 0 included, the playlist get_playlist
\* returns has at most n tracks, and fetch_playlist_continuations never
\* returns more than max_items tracks, even when the last page overshoots.
C1_LimitIsNeverExceeded ==
    /\ (Returned /\ call.limit # None) => Len(result.v.tracks) <= call.limit.v
    /\ more_tracks # Unset => Len(more_tracks.v) <= max_items

\* the last page brought more tracks than were still wanted, and the playlist
\* returned holds exactly the limit
C1_Witness ==
    /\ Returned
    /\ call.limit = Some(1)
    /\ more_tracks # Unset
    /\ Len(all_tracks) > max_items
    /\ Len(result.v.tracks) = 1

\* C2: every iteration of the fetch loop either stops the loop or adds at
\* least one track, so that at most max_items continuation requests are
\* issued, also by an upstream that hands back the same token forever.
C2_EveryIterationProgressesOrStops ==
    /\ Len(requests) <= 1 + max_items
    /\ pc = "loop" => Len(requests) - 1 <= Len(all_tracks)

\* max_items continuation requests were issued to an upstream that handed
\* back the same token each time, and the call returned
C2_Witness ==
    /\ Returned
    /\ max_items = 2
    /\ Len(requests) = 3
    /\ pages[2].token = Some("T1")
    /\ pages[3].token = Some("T1")

\* the requested maximum is larger than the number of tracks of the pages
LimitAboveTotal == track_limit > Len(PageTracks(pages))

\* the playlist is every page's tracks in order, the last page fetched carries
\* no token and every page before it carries one
AllPagesInOrder ==
    /\ result.v.tracks = PageTracks(pages)
    /\ pages[Len(pages)].token = None
    /\ \A i \in 1..(Len(pages) - 1) : pages[i].token # None

\* every continuation page that carries a token parses to at least one track
NoEmptyPageWithToken ==
    \A i \in 2..Len(pages) : pages[i].token # None => pages[i].tracks # <<>>

\* C3 as stated: when the requested maximum is larger than the number of
\* tracks available, get_playlist follows the tokens to the page that has
\* none and returns the concatenation of the parsed tracks of every page, in
\* page order, issuing no request after the page without a token.
C3_AllPagesConcatenated ==
    (Returned /\ LimitAboveTotal) => AllPagesInOrder

\* C3: when the requested maximum is larger than the number of tracks
\* available and every continuation page that carries a token parses to at
\* least one track, get_playlist follows the tokens to the page that has none
\* and returns the concatenation of the parsed tracks of every page, in page
\* order, issuing no request after the page without a token.
C3_NonEmptyPagesConcatenated ==
    (Returned /\ LimitAboveTotal /\ NoEmptyPageWithToken) => AllPagesInOrder

\* four pages chained by three tokens, the tracks of all of them returned
C3_Witness ==
    /\ Returned
    /\ LimitAboveTotal
    /\ NoEmptyPageWithToken
    /\ Len(pages) = 4
    /\ Len(requests) = 4
    /\ pages[4].token = None
    /\ Len(result.v.tracks) = 3

\* C4: when limit is Some(n) and the first page parses to n or more tracks,
\* get_playlist sends the browse request and no continuation request, even if
\* the first page carries a token, and returns the first n tracks of page 1.
C4_FirstPageSuffices ==
    (/\ pages # <<>>
     /\ call.limit # None
     /\ Len(pages[1].tracks) >= call.limit.v)
    => /\ Len(requests) = 1
       /\ Returned
       /\ result.v.tracks = SubSeq(pages[1].tracks, 1, call.limit.v)

\* the first page held the track that was asked for and a token
C4_Witness ==
    /\ Returned
    /\ call.limit = Some(1)
    /\ Len(pages[1].tracks) = 1
    /\ pages[1].token # None
    /\ Len(requests) = 1

\* C5: if the first fetch or a continuation fetch fails, get_playlist returns
\* that error and no playlist, and issues no request after the failed one.
C5_FetchErrorIsReturned ==
    failed_at # None =>
        /\ pc = "done"
        /\ result.tag = "Err"
        /\ result = failed_at.v.error
        /\ Len(requests) = failed_at.v.at

\* the third fetch failed after tracks had been accumulated
C5_Witness ==
    /\ failed_at # None
    /\ failed_at.v.at = 3
    /\ all_tracks # <<>>
    /\ playlist.tracks # <<>>
    /\ result.tag = "Err"

\* C6: every playlist get_playlist returns has duration_seconds present and
\* equal to the sum of duration_seconds over the tracks it returns, an absent
\* one counted as 0.
C6_DurationIsSumOfTracks ==
    Returned => result.v.duration_seconds = Some(TotalSeconds(result.v.tracks))

(***************************************************************************)
(* Properties of the client's operations.                                  *)
(***************************************************************************)
PlaylistCalls == {"get_playlist", "get_liked_songs"}

\* C7: whatever playlist_id is given, with or without a leading "VL", the
\* browse request of get_playlist carries a browseId that starts with "VL",
\* and neither the id of the playlist returned nor the playlist_id of a
\* summary from parse_library_playlists starts with "VL".
C7_PrefixSentNeverReturned ==
    /\ (call.op \in PlaylistCalls /\ requests # <<>>) =>
           StartsWith(requests[1].body.browseId, VL)
    /\ (call.op \in PlaylistCalls /\ playlist # Unset) => ~StartsWith(playlist.id, VL)
    /\ (call.op \in PlaylistCalls /\ Returned) => ~StartsWith(result.v.id, VL)
    /\ (call.op = "get_library_playlists" /\ Returned) =>
           \A i \in 1..Len(result.v) : ~StartsWith(result.v[i].playlist_id, VL)

\* a playlist asked for with a doubled prefix is returned without any
C7_Witness ==
    /\ call.op = "get_playlist"
    /\ call.playlist_id = <<"V", "L", "V", "L", "P", "L">>
    /\ Returned
    /\ requests[1].body.browseId = <<"V", "L", "V", "L", "P", "L">>
    /\ result.v.id = <<"P", "L">>

IsEdit(request, action) ==
    /\ request.endpoint = "browse/edit_playlist"
    /\ request.body.actions[1].action = action

\* the answer to the add request carries a status string that has "SUCCEEDED"
AddReportedSuccess ==
    /\ add_response # Unset
    /\ add_response.status.tag = "Some"
    /\ Contains(add_response.status.v, SUCCEEDED)

\* C8: move_playlist_items sends the remove request against the source only
\* after the add request against the destination was answered with a status
\* that contains "SUCCEEDED"; if the add request fails, or its answer has no
\* status or another status, the call returns an error and sends no remove
\* request.
C8_RemoveOnlyAfterAddSucceeded ==
    call.op = "move_playlist_items" =>
        /\ \A i \in 1..Len(requests) :
              IsEdit(requests[i], "ACTION_REMOVE_VIDEO") =>
                  /\ i = 2
                  /\ IsEdit(requests[1], "ACTION_ADD_VIDEO")
                  /\ requests[1].body.playlistId = validate_playlist_id(call.to_playlist_id)
                  /\ requests[2].body.playlistId = validate_playlist_id(call.from_playlist_id)
                  /\ AddReportedSuccess
        /\ ~AddReportedSuccess =>
              /\ pc = "done"
              /\ result.tag = "Err"
              /\ Len(requests) <= 1

\* a move whose add was answered with a success status sent its remove request
C8_Witness ==
    /\ call.op = "move_playlist_items"
    /\ pc = "done"
    /\ Len(requests) = 2
    /\ IsEdit(requests[2], "ACTION_REMOVE_VIDEO")
    /\ AddReportedSuccess

AuthenticatedCalls ==
    {"get_library_playlists", "get_liked_songs", "create_playlist", "delete_playlist",
     "rate_song", "like_song", "unlike_song", "add_playlist_items",
     "remove_playlist_items", "move_playlist_items"}

\* C9: on a client built without authentication each library operation
\* returns AuthRequired without sending a request, whatever its arguments
\* are, and get_playlist and get_song send their request.
C9_AuthRequiredBeforeAnything ==
    (auth = "none" /\ pc # "idle") =>
        /\ call.op \in AuthenticatedCalls =>
              /\ pc = "done"
              /\ result = Err("AuthRequired")
              /\ requests = <<>>
        /\ call.op \in {"get_playlist", "get_song"} =>
              /\ Len(requests) >= 1
              /\ result # Err("AuthRequired")

\* an unauthenticated add_playlist_items with no video id was refused for the
\* missing authentication
C9_Witness ==
    /\ auth = "none"
    /\ call.op = "add_playlist_items"
    /\ call.video_ids = <<>>
    /\ result = Err("AuthRequired")
    /\ requests = <<>>

(***************************************************************************)
(* Properties of the parsers.                                              *)
(***************************************************************************)
\* the parser named op has returned
Parsed(op) == pc = "done" /\ call.op = op

\* a run that is an object with a "text" member that is a string
HasTextString(run) ==
    /\ run.t = "object"
    /\ "text" \in DOMAIN run.members
    /\ run.members.text.t = "string"

\* a member of an object that is itself an object
HasObject(value, k) ==
    /\ value.t = "object"
    /\ k \in DOMAIN value.members
    /\ value.members[k].t = "object"

\* the browse ID of a run: the string under navigationEndpoint,
\* browseEndpoint, browseId, absent when there is none
RunBrowseId(run) ==
    IF /\ HasObject(run, "navigationEndpoint")
       /\ HasObject(run.members.navigationEndpoint, "browseEndpoint")
       /\ "browseId" \in
              DOMAIN run.members.navigationEndpoint.members.browseEndpoint.members
       /\ run.members.navigationEndpoint.members.browseEndpoint.members.browseId.t
              = "string"
    THEN Some(run.members.navigationEndpoint.members.browseEndpoint.members.browseId.s)
    ELSE None

\* the runs at the indices 0, 2, 4, ...
EvenRuns(runs) == [k \in 1..((Len(runs) + 1) \div 2) |-> runs[2 * k - 1]]

\* the artists of tests::test_parse_artist_runs
TestArtists == <<Artist("Artist 1", Some("UC123")), Artist("Artist 2", None)>>

C12_DeletedSongsAreDropped ==
    (Parsed("parse_playlist_tracks") /\ result # Panic) =>
        /\ \A i \in 1..Len(result.v) : result.v[i].title # Some("Song deleted")
        /\ Len(result.v) = Len(SelectSeq(call.contents, KeptRow))
        /\ \A i \in 1..Len(result.v) :
              /\ result.v[i].title = SelectSeq(call.contents, KeptRow)[i].title
              /\ result.v[i].duration = SelectSeq(call.contents, KeptRow)[i].duration

\* a placeholder between two tracks was dropped and the tracks kept in order
C12_Witness ==
    /\ Parsed("parse_playlist_tracks")
    /\ call.contents = <<RowA, Row(Some("Song deleted"), None), RowB>>
    /\ Len(result.v) = 2
    /\ result.v[1].title = Some("A")
    /\ result.v[2].title = Some("B")

\* a library response whose grid is found and starts with the button
GridWithButton ==
    /\ Parsed("parse_library_playlists")
    /\ call.response.single_column
    /\ call.response.tab_content
    /\ call.response.section_list
    /\ call.response.grid # None
    /\ call.response.grid.v # <<>>
    /\ call.response.grid.v[1] = NewPlaylistButton

\* a grid item parse_playlist_item makes a summary of
Recognized(item) ==
    /\ item.renderer = MTRIR
    /\ item.title # None
    /\ (item.playlist_id # None \/ item.browse_id # None)

\* the id a summary is made from: the playlist id, else the browse id
RawId(item) == IF item.playlist_id # None THEN item.playlist_id.v ELSE item.browse_id.v

\* id is raw without the "VL"s it starts with
IsUnprefixed(id, raw) ==
    /\ ~StartsWith(id, VL)
    /\ raw \in {id, VL \o id, VL \o VL \o id}

\* the summaries are the rows after the first, one for one and in row order
OnePerRemainingRow ==
    /\ Len(result) = Len(call.response.grid.v) - 1
    /\ \A k \in 1..Len(result) :
          /\ Recognized(call.response.grid.v[k + 1])
          /\ result[k].title = call.response.grid.v[k + 1].title.v
          /\ IsUnprefixed(result[k].playlist_id, RawId(call.response.grid.v[k + 1]))

Child(value, segment) ==
    IF segment.segment = "Key"
    THEN IF value.t = "object" /\ segment.key \in DOMAIN value.members
         THEN Some(value.members[segment.key])
         ELSE None
    ELSE IF value.t = "array" /\ segment.idx < Len(value.items)
         THEN Some(value.items[segment.idx + 1])
         ELSE None

ChildOf(parent, segment) == IF parent = None THEN None ELSE Child(parent.v, segment)

\* what a path leads to: what its last segment names in what the path
\* before it leads to
RECURSIVE Resolve(_, _)
Resolve(root, path) ==
    IF path = <<>> THEN Some(root)
    ELSE ChildOf(Resolve(root, SubSeq(path, 1, Len(path) - 1)), path[Len(path)])

Scalars == {"null", "bool", "number", "string"}

\* C14: nav with an empty step sequence returns the root unchanged; nav with
\* a non-empty step sequence on a null or a scalar returns not found; and nav
\* returns not found, without raising, as soon as one step is missing or
\* mismatched, and the value the steps lead to otherwise.
C14_NavFindsOrReturnsNotFound ==
    Parsed("nav") =>
        /\ result.tag \in {"None", "Some"}
        /\ call.path = <<>> => result = Some(call.root)
        /\ (call.path # <<>> /\ call.root.t \in Scalars) => result = None
        /\ result = Resolve(call.root, call.path)

\* the second name of the items array was found, as in tests::test_nav_array
C14_Witness ==
    /\ Parsed("nav")
    /\ call.path = <<Key("items"), Index(1), Key("name")>>
    /\ result = Some(JString("second"))

\* C20: every Playlist produced by parse_playlist_response, also on a
\* response where the layout wrapper, the tab content or the first
\* section-list item cannot be located, has duration_seconds present and
\* equal to the sum of its tracks' duration_seconds, absent counted as 0.
C20_ParsedDurationIsSumOfTracks ==
    (Parsed("parse_playlist_response") /\ result.tag = "Ok") =>
        result.v.duration_seconds = Some(TotalSeconds(result.v.tracks))

(***************************************************************************)
(* Properties of the requests the client sends.                            *)
(***************************************************************************)
\* the error send_request returns for an answer that is a failure
ErrorOf(answer) == IF answer = "transport_error" THEN Err("Http") ELSE Err("Server")

\* the operations that call send_request once
OneRequestCalls ==
    {"get_library_playlists", "create_playlist", "delete_playlist", "get_song",
     "rate_song", "like_song", "unlike_song", "add_playlist_items",
     "remove_playlist_items"}

RawBatch == IF shapes.first.tag = "Array" THEN shapes.first ELSE shapes.second

\* the latest answer is a continuation page whose batch holds no track
EmptyBatch ==
    /\ Len(pages) >= 2
    /\ RawBatch.tag = "Array"
    /\ RawBatch.titles = <<>>

\* C17: when a continuation page parses to zero tracks, the loop stops and
\* no further request is issued, even if the last raw item of that page
\* carries a continuation token.
C17_EmptyPageStopsTheLoop ==
    EmptyBatch =>
        /\ Len(requests) = Len(pages)
        /\ pc \in {"return", "done"}

\* the second page held only a deleted song and a token; the call returned
\* the tracks of the first page after two requests
C17_Witness ==
    /\ Returned
    /\ Len(pages) = 2
    /\ EmptyBatch
    /\ RawBatch.token # None
    /\ Len(requests) = 2
    /\ result.v.tracks = pages[1].tracks
    /\ result.v.tracks # <<>>

\* a continuation request is sent in this step
ContinuationRequested == pc = "loop" /\ Len(requests') = Len(requests) + 1

\* C18: continuation request k+1 is issued only after request k was answered
\* with JSON; its body carries as continuation exactly the token of the last
\* raw item of that answer's batch (of the shelf contents for the first page)
\* and no browseId; the token of an older answer is never reused.
C18_RequestCarriesLatestToken ==
    [][ContinuationRequested =>
           /\ Len(pages) = Len(requests)
           /\ requests[Len(requests)].answer = "json"
           /\ DOMAIN requests'[Len(requests')].body = {"continuation"}
           /\ RawBatch.tag = "Array"
           /\ RawBatch.token = Some(requests'[Len(requests')].body.continuation)]_vars

\* the first page ended with token T1 and the second with T2: the second
\* request carried T1 and the third T2
C18_Witness ==
    /\ Len(requests) = 3
    /\ Len(pages) = 3
    /\ pages[1].token = Some("T1")
    /\ requests[2].body.continuation = "T1"
    /\ pages[2].token = Some("T2")
    /\ requests[3].body.continuation = "T2"

\* the client read from the latest answer the tracks and the token of a batch
ReadFrom(batch) ==
    /\ kept_titles(pages[Len(pages)].tracks) = batch.titles
    /\ pages[Len(pages)].token = batch.token

\* C19: for each continuation response the first shape wins when both hold
\* an item list, the second is used whenever the first does not yield an item
\* list, and the client reads no batch only when neither shape yields one.
C19_SecondShapeUsedWheneverFirstHasNoList ==
    Len(pages) >= 2 =>
        /\ shapes.first.tag = "Array" => ReadFrom(shapes.first)
        /\ (shapes.first.tag # "Array" /\ shapes.second.tag = "Array") =>
               ReadFrom(shapes.second)
        /\ (shapes.first.tag # "Array" /\ shapes.second.tag # "Array") =>
               (pages[Len(pages)].tracks = <<>> /\ pages[Len(pages)].token = None)


(***************************************************************************)
(* Claims about the playlist header and the rows of a track list.          *)
(***************************************************************************)
\* the text of a run, None when it has no "text" string
RunText(run) == and_then_as_str(get_key(run, "text"))

\* the runs of `runs` whose text passes `test`, in order
RunsPassing(runs, test(_)) ==
    SelectSeq(runs, LAMBDA run : RunText(run) # None /\ test(RunText(run).v))

\* whether the text starts with an integer that fits u32
HasCount(text) == parse_count(first_word(text)) # None

\* whether the text names a count and starts with one
CountsTracks(text) == names_count(text) /\ HasCount(text)

\* the last element of a sequence that is not empty
Last(s) == s[Len(s)]

\* C21 as stated: in parse_playlist_meta_from_runs the two tests are applied
\* independently to every run: each run whose text contains "song" or "track"
\* sets track_count from its leading integer with commas stripped, and each
\* run whose text contains "hour" or "minute" sets the duration label to the
\* run's text verbatim, also when one run's text passes both tests.
C21_BothTestsApplyToEveryRun ==
    Parsed("parse_playlist_meta_from_runs") =>
        LET counts == RunsPassing(call.second_subtitle, CountsTracks)
            labels == RunsPassing(call.second_subtitle, names_duration)
        IN /\ result.track_count =
                  IF counts = <<>> THEN None
                  ELSE parse_count(first_word(RunText(Last(counts)).v))
           /\ result.duration =
                  IF labels = <<>> THEN None ELSE RunText(Last(labels))

\* the first section-list item of the parsed response, when the parser
\* reaches it
FirstItem ==
    IF call.response.two_col /\ call.response.tab_content /\ call.response.section_item
    THEN Some(call.response.first_item)
    ELSE None

EDITABLE == "musicEditablePlaylistDetailHeaderRenderer"

\* whether the editable-header wrapper is a member of the first item
HasEditableHeader ==
    /\ FirstItem # None
    /\ FirstItem.v.t = "object"
    /\ EDITABLE \in DOMAIN FirstItem.v.members

\* the privacy values and the strings that name them
PrivacyNames ==
    { <<<<"P", "U", "B", "L", "I", "C">>, "Public">>,
      <<<<"P", "R", "I", "V", "A", "T", "E">>, "Private">>,
      <<<<"U", "N", "L", "I", "S", "T", "E", "D">>, "Unlisted">> }

\* the explicit privacy field of the edit header, when it is a string
PrivacyField ==
    nav_str(FirstItem.v.members[EDITABLE],
            <<Key("editHeader"), Key("musicPlaylistEditHeaderRenderer"), Key("privacy")>>)

\* C22: parse_playlist_response sets owned to true exactly when the
\* editable-header wrapper node is present in the first section-list item;
\* a playlist that is not owned has privacy Public, and an owned one has the
\* privacy its edit header names (PUBLIC, PRIVATE or UNLISTED).
C22_OwnedIffEditableHeader ==
    (Parsed("parse_playlist_response") /\ result.tag = "Ok") =>
        /\ result.v.owned <=> HasEditableHeader
        /\ ~result.v.owned => result.v.privacy = "Public"
        /\ result.v.owned =>
               \A n \in PrivacyNames :
                   PrivacyField = Some(n[1]) => result.v.privacy = n[2]

\* an owned playlist whose edit header says UNLISTED was parsed with its
\* title, count and duration label
C22_Witness ==
    /\ Parsed("parse_playlist_response")
    /\ result.tag = "Ok"
    /\ HasEditableHeader
    /\ PrivacyField = Some(<<"U", "N", "L", "I", "S", "T", "E", "D">>)
    /\ result.v.owned
    /\ result.v.privacy = "Unlisted"
    /\ result.v.title = "Mine"
    /\ result.v.track_count = Some(Nat32(12))
    /\ result.v.duration = Some(<<"2", " ", "h", "o", "u", "r", "s">>)

\* the content text of a flex column
ColumnText(column) ==
    nav_str(column, <<Key("musicResponsiveListItemFlexColumnRenderer"), Key("text"),
                      Key("runs"), Index(0), Key("text")>>)

\* the later columns of the parsed row whose content text is not empty
NamedColumns ==
    { i \in 1..Len(call.item.later_columns) :
        /\ ColumnText(call.item.later_columns[i]) # None
        /\ ColumnText(call.item.later_columns[i]).v # "" }

\* the least number of a set of numbers that is not empty
Least(S) == CHOOSE i \in S : \A j \in S : i <= j

\* C23 as stated: in parse_playlist_track the album of a row is taken from
\* the first flexible column at index 2 or later whose content text resolves
\* to a non-empty value; a column whose text is missing or is the empty
\* string is passed over, and a row with no such column has no album.
C23_AlbumIsFirstNonEmptyColumn ==
    (Parsed("parse_playlist_track") /\ result.tag = "Some") =>
        IF NamedColumns = {} THEN result.v.album = None
        ELSE /\ result.v.album # None
             /\ Some(result.v.album.v.name)
                    = ColumnText(call.item.later_columns[Least(NamedColumns)])

\* C24 as stated: parse_playlist_track omits a row only when the row has no
\* recognized renderer wrapper or its title is exactly "Song deleted"; every
\* other row is kept, with each missing field left at its absent value.
C24_OnlyUnwrappedAndDeletedRowsAreOmitted ==
    (Parsed("parse_playlist_track") /\ result # Panic) =>
        /\ result = None <=>
               \/ call.item.renderer # MRLIR
               \/ call.item.title = Some("Song deleted")
        /\ result # None =>
               /\ result.v.title = call.item.title
               /\ result.v.duration = call.item.duration
               /\ call.item.duration = None => result.v.duration_seconds = None
               /\ call.item.later_columns = <<>> => result.v.album = None

\* the first page came without the two-column layout wrapper
LayoutMissing == shapes # Unset /\ shapes.first.tag = "Unlocated"

\* C25: when the two-column layout wrapper cannot be located in the browse
\* response, get_playlist returns Ok with the default playlist (empty title,
\* no tracks, not owned, Public, the requested id without its prefix) after
\* exactly one request, and sends no continuation request.
C25_MissingLayoutGivesDefaultPlaylist ==
    LayoutMissing =>
        /\ Returned
        /\ result.v.id = StripPrefix(call.playlist_id, VL)
        /\ result.v.title = ""
        /\ result.v.tracks = <<>>
        /\ ~result.v.owned
        /\ result.v.privacy = "Public"
        /\ Len(requests) = 1
        /\ requests[1].body = [browseId |-> browse_id(call.playlist_id)]

\* without a limit, a first page without the layout wrapper ended the call
\* with an empty playlist
C25_Witness ==
    /\ LayoutMissing
    /\ call.op = "get_playlist"
    /\ call.limit = None
    /\ Returned
    /\ result.v.tracks = <<>>
    /\ Len(requests) = 1

(***************************************************************************)
(* Claims about moving and removing playlist items.                        *)
(***************************************************************************)
\* the items of the call that carry both video_id and set_video_id, in order
BothIds == SelectSeq(call.items, LAMBDA item : item.video_id # None /\ item.set_video_id # None)

\* the edit requests of the call so far that carry `action`
EditRequests(action) == { i \in 1..Len(requests) : IsEdit(requests[i], action) }

\* the add request names the video ids of the items with both ids, in order
AddsBothIds(request) ==
    /\ Len(request.body.actions) = Len(BothIds)
    /\ \A k \in 1..Len(BothIds) :
           request.body.actions[k].addedVideoId = BothIds[k].video_id.v

\* the remove request names the items with both ids, in order
RemovesBothIds(request) ==
    /\ Len(request.body.actions) = Len(BothIds)
    /\ \A k \in 1..Len(BothIds) :
           /\ request.body.actions[k].removedVideoId = BothIds[k].video_id.v
           /\ request.body.actions[k].setVideoId = BothIds[k].set_video_id.v

\* what every request of a move or a remove names
OnlyBothIdsAreSent ==
    /\ \A i \in EditRequests("ACTION_ADD_VIDEO") : AddsBothIds(requests[i])
    /\ \A i \in EditRequests("ACTION_REMOVE_VIDEO") : RemovesBothIds(requests[i])

ItemCalls == {"move_playlist_items", "remove_playlist_items"}

\* C27 as stated: move_playlist_items and remove_playlist_items act only on
\* items that carry both video_id and set_video_id: the video ids added to
\* the destination are those of the items removed from the source, in input
\* order; when no input item carries both ids the call returns InvalidInput
\* and sends no request.
C27_OnlyItemsWithBothIdsAreMoved ==
    call.op \in ItemCalls =>
        /\ OnlyBothIdsAreSent
        /\ BothIds = <<>> =>
               /\ pc = "done"
               /\ result = Err("InvalidInput")
               /\ requests = <<>>

\* C27: the same, with InvalidInput returned for a call without an item that
\* carries both ids when the client is authenticated; a client without
\* authentication gets the authentication error, and sends no request either.
C27_OnlyItemsWithBothIdsAreMovedWhenAuthenticated ==
    call.op \in ItemCalls =>
        /\ OnlyBothIdsAreSent
        /\ BothIds = <<>> =>
               /\ pc = "done"
               /\ requests = <<>>
               /\ result = IF check_auth(auth).tag = "Err" THEN check_auth(auth)
                            ELSE Err("InvalidInput")

\* a move of [v2, an item without set_video_id, v1] added v2 and v1 and then
\* removed them, in that order
C27_Witness ==
    /\ call.op = "move_playlist_items"
    /\ Len(call.items) = 3
    /\ call.items[2].set_video_id = None
    /\ Returned
    /\ Len(requests) = 2
    /\ requests[1].body.actions[1].addedVideoId = "v2"
    /\ requests[1].body.actions[2].addedVideoId = "v1"
    /\ requests[2].body.actions[1].removedVideoId = "v2"
    /\ requests[2].body.actions[2].removedVideoId = "v1"

\* the request was sent against the playlist `playlist_id` names
Against(request, playlist_id) ==
    request.body.playlistId = validate_playlist_id(playlist_id)

\* the requests of a move so far are its add request against the destination
\* and then, at most, its remove request against the source
AddThenRemove ==
    /\ Len(requests) <= 2
    /\ Len(requests) >= 1 =>
           /\ IsEdit(requests[1], "ACTION_ADD_VIDEO")
           /\ Against(requests[1], call.to_playlist_id)
    /\ Len(requests) = 2 =>
           /\ IsEdit(requests[2], "ACTION_REMOVE_VIDEO")
           /\ Against(requests[2], call.from_playlist_id)
           /\ requests[1].answer = "json"
           /\ AddReportedSuccess

\* C28: move_playlist_items returns Ok only after exactly one add request and
\* then exactly one remove request have both been sent and answered; if the
\* remove request fails after the add succeeded, the call returns that error
\* and sends no compensating request against the destination.
C28_MoveIsAddThenRemove ==
    call.op = "move_playlist_items" =>
        /\ AddThenRemove
        /\ Returned =>
               /\ Len(requests) = 2
               /\ requests[2].answer = "json"
               /\ result.v.add_response = add_response
        /\ (Len(requests) = 2 /\ requests[2].answer # "json") =>
               /\ pc = "done"
               /\ result = ErrorOf(requests[2].answer)

\* the add of a move was answered with a success status, its remove request
\* met a transport failure, and the move returned that error after the two
\* requests
C28_Witness ==
    /\ call.op = "move_playlist_items"
    /\ pc = "done"
    /\ AddReportedSuccess
    /\ Len(requests) = 2
    /\ Against(requests[1], call.to_playlist_id)
    /\ Against(requests[2], call.from_playlist_id)
    /\ requests[2].answer = "transport_error"
    /\ result = Err("Http")

(***************************************************************************)
(* OAuthState: what the store holds, what callers get, and how many        *)
(* refresh requests are sent.                                              *)
(***************************************************************************)
\* `tok` is all of `fresh`, with the refresh token of `prev` when `fresh` has
\* none and the cache path of `prev`
CompleteUpdate(prev, fresh, tok) ==
    /\ tok.access_token = fresh.access_token
    /\ tok.expires_at = fresh.expires_at
    /\ tok.expires_in = fresh.expires_in
    /\ tok.refresh_token = (IF fresh.refresh_token = None THEN prev.refresh_token
                            ELSE fresh.refresh_token)
    /\ tok.cache_path = prev.cache_path

\* the refresh responses callers have received
Fetched == { callers[c].fresh : c \in { d \in Callers : callers[d].fresh # Unset } }

\* the stored token is the complete result of one update of the value it
\* replaced
StoredByOneUpdate ==
    /\ Len(held) > 1
    /\ \E fresh \in Fetched : CompleteUpdate(held[Len(held) - 1], fresh, inner)

\* the initial token with the expires_at the first call computed for it
InitialWithExpiry ==
    /\ held[1].expires_at = None
    /\ held[1].expires_in # None
    /\ \E at \in 0..MaxNow : inner = [held[1] EXCEPT !.expires_at = Some(at + held[1].expires_in.v)]

\* every Ok is a value the store held between the call's start and its return
OkIsAHeldValue ==
    \A c \in Callers :
        (callers[c].result # Unset /\ callers[c].result.tag = "Ok")
            => \E k \in callers[c].since..callers[c].until : held[k] = callers[c].result.v

\* C29, as stated: the stored token is always the initial token or the
\* complete result of one update_from applied to one refresh response, and
\* every Ok returns a value the store held during the call
C29_StoreIsInitialOrOneCompleteUpdate ==
    /\ inner = held[1] \/ StoredByOneUpdate
    /\ OkIsAHeldValue

\* C29, amended: the stored token is always the initial token, the initial
\* token with its missing expires_at computed from expires_in, or the
\* complete result of one update_from applied to one refresh response, and
\* every Ok returns a value the store held during the call
C29_StoreIsInitialOrExpiryFilledOrOneCompleteUpdate ==
    /\ inner = held[1] \/ InitialWithExpiry \/ StoredByOneUpdate
    /\ OkIsAHeldValue

\* two callers refreshed at once, both stored their response and returned it
C29_Witness ==
    /\ Len(refreshes) = 2
    /\ \A c \in Callers : callers[c].at = "done" /\ callers[c].fresh # Unset
                          /\ callers[c].result.tag = "Ok"
    /\ callers[1].result # callers[2].result
    /\ Len(held) >= 3

\* C30: for one expiry of the stored token at most one refresh request is
\* sent once a request for it has succeeded
C30_AtMostOneRefreshPerExpiry ==
    \A i, j \in 1..Len(refreshes) :
        (i < j /\ refreshes[i].succeeded) => refreshes[i].for_expiry # refreshes[j].for_expiry
(***************************************************************************)
(* The reference the documentation gives for parse_duration: after         *)
(* trimming, 1 to 3 colon-separated segments, each a non-empty string of   *)
(* decimal digits, read right to left as seconds, minutes and hours.       *)
(***************************************************************************)
RECURSIVE DecimalValue(_, _)
DecimalValue(s, acc) ==
    IF s = <<>> THEN acc
    ELSE DecimalValue(Tail(s), NumAdd(NumMul(acc, 10), Nat32(DigitValue(Head(s)))))

IsDecimal(s) == s # <<>> /\ \A i \in 1..Len(s) : IsDigit(s[i])

RECURSIVE ReferenceTotal(_, _)
ReferenceTotal(parts, i) ==
    IF i >= Len(parts) THEN Nat32(0)
    ELSE NumAdd(NumMul(DecimalValue(parts[Len(parts) - i], Nat32(0)), Multiplier(i)),
                ReferenceTotal(parts, i + 1))

ReferenceDuration(d) ==
    LET parts == Split(Trim(d), ":")
    IN  IF /\ Trim(d) # <<>>
           /\ Len(parts) <= 3
           /\ \A i \in 1..Len(parts) : IsDecimal(parts[i])
        THEN Some(ReferenceTotal(parts, 0))
        ELSE None

\* C10: parse_duration agrees with the documented reference on every input
\* string: digit segments give hours*3600 + minutes*60 + seconds, every other
\* input gives absent.
C10_ParseDurationAgreesWithReference ==
    seconds # Unset => seconds = ReferenceDuration(duration)

\* the documented examples: "1:23:45" gives 5025, "3:42" gives 222, "" gives absent
DocumentedExamples ==
    /\ parse_duration(<<"1", ":", "2", "3", ":", "4", "5">>, overflow_checks) = Some(Nat32(5025))
    /\ parse_duration(<<"3", ":", "4", "2">>, overflow_checks) = Some(Nat32(222))
    /\ parse_duration(<<>>, overflow_checks) = None
    /\ parse_duration(<<" ", " ">>, overflow_checks) = None


\* the segments of the parsed string
DurationParts == Split(Trim(duration), ":")

\* every segment of the parsed string is a string of decimal digits
DigitSegments == \A i \in 1..Len(DurationParts) : IsDecimal(DurationParts[i])

\* C26 as stated: parse_duration never raises and never returns a wrapped
\* value: for every input whose segments are decimal digit strings, also when
\* a product or the running total exceeds 2^32-1, the result is either absent
\* or exactly hours*3600 + minutes*60 + seconds.
C26_ParseDurationNeverPanicsOrWraps ==
    (seconds # Unset /\ DigitSegments) =>
        /\ seconds # Panic
        /\ seconds # None => seconds = Some(ReferenceTotal(DurationParts, 0))
=============================================================================
